---- MODULE Spec2Model ----
(***************************************************************************)
(* Wire-protocol engine of the MemoryTools Node client                     *)
(* (src/unnamed/part_002, class MemoryToolsClient, lines 103-296):         *)
(* TLS connection life cycle, authentication gate, incremental frame       *)
(* decoder over responseBuffer and the single responseWaiter slot.         *)
(*                                                                         *)
(* Scheduling follows the Node event loop: socket events (secureConnect,   *)
(* data, error, close) are macrotasks and run only when no promise         *)
(* continuation is queued; API calls made by user code and the queued      *)
(* continuation of sendCommand (after `await this.connect()`) are          *)
(* microtask-level steps and may interleave with each other.               *)
(***************************************************************************)
EXTENDS Integers, Sequences, FiniteSets, TLC

\* ---------------------------------------------------------------- bounds
MaxAttempts == 2
MaxCalls == 2
ChunkLen == 6
MaxFrames == 2

\* ------------------------------------------------------ protocol constants
CMD_COLLECTION_CREATE == 3
CMD_COLLECTION_ITEM_SET == 9
CMD_COLLECTION_ITEM_GET == 11
CMD_AUTHENTICATE == 18
CMD_BEGIN == 25
STATUS_OK == 1
STATUS_NOT_FOUND == 2
STATUS_ERROR == 3
STATUS_BAD_COMMAND == 4
STATUS_UNAUTHORIZED == 5
STATUS_BAD_REQUEST == 6
MIN_HEADER_SIZE == 5

Null == 0
NoUser == << >>
Username == <<97>>
Password == <<112>>
CollectionName == <<99>>
Key == <<107>>
\* key?: string left out (undefined); `key || ""` treats the empty string alike
NoKey == << >>

\* ------------------------------------------------------------ byte helpers
SubSeqFrom(s, n) == SubSeq(s, n + 1, Len(s))

\* lenBuffer.writeUInt32LE(n, 0)
WriteUInt32LE(n) ==
  << n % 256, (n \div 256) % 256, (n \div 65536) % 256, (n \div 16777216) % 256 >>

\* buf.readUInt32LE(off), off counted from 0
ReadUInt32LE(buf, off) ==
  buf[off + 1] + 256 * buf[off + 2] + 65536 * buf[off + 3] + 16777216 * buf[off + 4]

\* buf.readUInt8(off)
ReadUInt8(buf, off) == buf[off + 1]

\* buf.subarray(a, b), offsets counted from 0, end exclusive
Subarray(buf, a, b) == SubSeq(buf, a + 1, b)

\* ---- UTF-8: a string is a sequence of code points, a buffer a sequence of bytes
ReplacementChar == 65533

Utf8EncodeCp(cp) ==
  IF cp < 128 THEN << cp >>
  ELSE IF cp < 2048 THEN << 192 + (cp \div 64), 128 + (cp % 64) >>
  ELSE IF cp < 65536
    THEN << 224 + (cp \div 4096), 128 + ((cp \div 64) % 64), 128 + (cp % 64) >>
  ELSE << 240 + (cp \div 262144), 128 + ((cp \div 4096) % 64),
          128 + ((cp \div 64) % 64), 128 + (cp % 64) >>

RECURSIVE Utf8Encode(_)
\* Buffer.from(str, "utf8")
Utf8Encode(str) ==
  IF str = << >> THEN << >> ELSE Utf8EncodeCp(Head(str)) \o Utf8Encode(Tail(str))

IsCont(b) == b >= 128 /\ b <= 191

RECURSIVE Utf8Decode(_)
\* buf.toString("utf8"): malformed input decodes to U+FFFD
Utf8Decode(b) ==
  IF b = << >> THEN << >>
  ELSE LET b1 == b[1] IN
    IF b1 < 128 THEN << b1 >> \o Utf8Decode(SubSeqFrom(b, 1))
    ELSE IF b1 >= 194 /\ b1 <= 223 /\ Len(b) >= 2 /\ IsCont(b[2])
      THEN << (b1 - 192) * 64 + (b[2] - 128) >> \o Utf8Decode(SubSeqFrom(b, 2))
    ELSE IF b1 >= 224 /\ b1 <= 239 /\ Len(b) >= 3 /\ IsCont(b[2]) /\ IsCont(b[3])
            /\ (b1 = 224 => b[2] >= 160) /\ (b1 = 237 => b[2] <= 159)
      THEN << (b1 - 224) * 4096 + (b[2] - 128) * 64 + (b[3] - 128) >>
           \o Utf8Decode(SubSeqFrom(b, 3))
    ELSE IF b1 >= 240 /\ b1 <= 244 /\ Len(b) >= 4
            /\ IsCont(b[2]) /\ IsCont(b[3]) /\ IsCont(b[4])
            /\ (b1 = 240 => b[2] >= 144) /\ (b1 = 244 => b[2] <= 143)
      THEN << (b1 - 240) * 262144 + (b[2] - 128) * 4096 + (b[3] - 128) * 64
              + (b[4] - 128) >> \o Utf8Decode(SubSeqFrom(b, 4))
    ELSE << ReplacementChar >> \o Utf8Decode(SubSeqFrom(b, 1))

\* writeString(str): uint32 LE byte length + UTF-8 bytes
WriteString(str) == WriteUInt32LE(Len(Utf8Encode(str))) \o Utf8Encode(str)

\* writeBytes(bytes): uint32 LE length + bytes
WriteBytes(bytes) == WriteUInt32LE(Len(bytes)) \o bytes

\* The response frame as the server puts it on the wire (README, protocol):
\* status | u32le(len message) | message | u32le(len data) | data
EncodeResponse(f) == << f.status >> \o WriteString(f.message) \o WriteBytes(f.data)

\* getStatusString(status), lines 36-46: the table lookup, and
\* "UNKNOWN_STATUS" for a status that has no entry.
\* getStatusString returning the table entry without the fallback.
GetStatusString_NoFallback(status) ==
  CASE status = STATUS_OK -> "OK"
    [] status = STATUS_NOT_FOUND -> "NOT_FOUND"
    [] status = STATUS_ERROR -> "ERROR"
    [] status = STATUS_BAD_COMMAND -> "BAD_COMMAND"
    [] status = STATUS_UNAUTHORIZED -> "UNAUTHORIZED"
    [] status = STATUS_BAD_REQUEST -> "BAD_REQUEST"
    [] OTHER -> "undefined"

GetStatusString(status) ==
  CASE status = STATUS_OK -> "OK"
    [] status = STATUS_NOT_FOUND -> "NOT_FOUND"
    [] status = STATUS_ERROR -> "ERROR"
    [] status = STATUS_BAD_COMMAND -> "BAD_COMMAND"
    [] status = STATUS_UNAUTHORIZED -> "UNAUTHORIZED"
    [] status = STATUS_BAD_REQUEST -> "BAD_REQUEST"
    [] OTHER -> "UNKNOWN_STATUS"

\* What the message of a thrown Error carries besides its category: the
\* status string and the server message of
\* `${getStatusString(status)}: ${message}`; empty for the other errors.
NoDetail == [status |-> "", message |-> << >>]
DetailOf(frame) == [status |-> GetStatusString(frame.status), message |-> frame.message]

\* ------------------------------------------------------------ the decoder
NoFrame == [status |-> 0, message |-> << >>, data |-> << >>]
NoWaiter == [kind |-> "none", id |-> 0]
AuthWaiter(a) == [kind |-> "auth", id |-> a]
CmdWaiter(c) == [kind |-> "cmd", id |-> c]

\* ParseFront with the data sliced from the offset of its length field.
ParseFront_DataOffset(buf) ==
  IF Len(buf) < MIN_HEADER_SIZE
    THEN [complete |-> FALSE, frame |-> NoFrame, total |-> 0]
  ELSE LET msgLen == ReadUInt32LE(buf, 1)
           REQUIRED_FOR_DATA_LEN == MIN_HEADER_SIZE + msgLen + 4
       IN IF Len(buf) < REQUIRED_FOR_DATA_LEN
            THEN [complete |-> FALSE, frame |-> NoFrame, total |-> 0]
          ELSE LET dataLen == ReadUInt32LE(buf, MIN_HEADER_SIZE + msgLen)
                   totalPacketLength == REQUIRED_FOR_DATA_LEN + dataLen
               IN IF Len(buf) < totalPacketLength
                    THEN [complete |-> FALSE, frame |-> NoFrame, total |-> 0]
                  ELSE [complete |-> TRUE,
                        frame |-> [status |-> ReadUInt8(buf, 0),
                                   message |-> Utf8Decode(Subarray(buf, MIN_HEADER_SIZE,
                                                           MIN_HEADER_SIZE + msgLen)),
                                   data |-> Subarray(buf, MIN_HEADER_SIZE + msgLen,
                                                     MIN_HEADER_SIZE + msgLen + dataLen)],
                        total |-> totalPacketLength]

\* tryProcessResponse, lines 201-221: the three length checks and the
\* extraction of one frame from the front of buf.  Returns the frame and the
\* number of bytes it occupies; complete is FALSE when a check returns early.
ParseFront(buf) ==
  IF Len(buf) < MIN_HEADER_SIZE
    THEN [complete |-> FALSE, frame |-> NoFrame, total |-> 0]
  ELSE LET msgLen == ReadUInt32LE(buf, 1)
           REQUIRED_FOR_DATA_LEN == MIN_HEADER_SIZE + msgLen + 4
       IN IF Len(buf) < REQUIRED_FOR_DATA_LEN
            THEN [complete |-> FALSE, frame |-> NoFrame, total |-> 0]
          ELSE LET dataLen == ReadUInt32LE(buf, MIN_HEADER_SIZE + msgLen)
                   totalPacketLength == REQUIRED_FOR_DATA_LEN + dataLen
               IN IF Len(buf) < totalPacketLength
                    THEN [complete |-> FALSE, frame |-> NoFrame, total |-> 0]
                  ELSE [complete |-> TRUE,
                        frame |-> [status |-> ReadUInt8(buf, 0),
                                   message |-> Utf8Decode(Subarray(buf, MIN_HEADER_SIZE,
                                                           MIN_HEADER_SIZE + msgLen)),
                                   data |-> Subarray(buf, REQUIRED_FOR_DATA_LEN,
                                                     totalPacketLength)],
                        total |-> totalPacketLength]

\* tryProcessResponse discarding a buffer that holds no complete frame.
TryProcess_DropsPartial(buf, waiter) ==
  IF waiter = NoWaiter
    THEN [buffer |-> buf, waiter |-> waiter, delivered |-> FALSE,
          to |-> NoWaiter, frame |-> NoFrame]
  ELSE LET p == ParseFront(buf)
       IN IF ~p.complete
            THEN [buffer |-> << >>, waiter |-> waiter, delivered |-> FALSE,
                  to |-> NoWaiter, frame |-> NoFrame]
          ELSE [buffer |-> SubSeqFrom(buf, p.total), waiter |-> NoWaiter,
                delivered |-> TRUE, to |-> waiter, frame |-> p.frame]

\* tryProcessResponse trimming the header and the message of the delivered
\* frame but not its data.
TryProcess_TrimsHeader(buf, waiter) ==
  IF waiter = NoWaiter
    THEN [buffer |-> buf, waiter |-> waiter, delivered |-> FALSE,
          to |-> NoWaiter, frame |-> NoFrame]
  ELSE LET p == ParseFront(buf)
       IN IF ~p.complete
            THEN [buffer |-> buf, waiter |-> waiter, delivered |-> FALSE,
                  to |-> NoWaiter, frame |-> NoFrame]
          ELSE [buffer |-> SubSeqFrom(buf, p.total - Len(p.frame.data)),
                waiter |-> NoWaiter,
                delivered |-> TRUE, to |-> waiter, frame |-> p.frame]

\* tryProcessResponse calling the waiter without emptying the slot.
TryProcess_KeepsWaiter(buf, waiter) ==
  IF waiter = NoWaiter
    THEN [buffer |-> buf, waiter |-> waiter, delivered |-> FALSE,
          to |-> NoWaiter, frame |-> NoFrame]
  ELSE LET p == ParseFront(buf)
       IN IF ~p.complete
            THEN [buffer |-> buf, waiter |-> waiter, delivered |-> FALSE,
                  to |-> NoWaiter, frame |-> NoFrame]
          ELSE [buffer |-> SubSeqFrom(buf, p.total), waiter |-> waiter,
                delivered |-> TRUE, to |-> waiter, frame |-> p.frame]

\* tryProcessResponse as a function of (responseBuffer, responseWaiter).
\* The waiter is a promise's resolve function: calling it never registers a
\* new waiter synchronously, so the `while (true)` loop leaves through
\* `if (!this.responseWaiter) return` after the first delivery.
TryProcess(buf, waiter) ==
  IF waiter = NoWaiter
    THEN [buffer |-> buf, waiter |-> waiter, delivered |-> FALSE,
          to |-> NoWaiter, frame |-> NoFrame]
  ELSE LET p == ParseFront(buf)
       IN IF ~p.complete
            THEN [buffer |-> buf, waiter |-> waiter, delivered |-> FALSE,
                  to |-> NoWaiter, frame |-> NoFrame]
          ELSE [buffer |-> SubSeqFrom(buf, p.total), waiter |-> NoWaiter,
                delivered |-> TRUE, to |-> waiter, frame |-> p.frame]

\* ------------------------------------------------------------------ state
VARIABLES
  username,               \* this.username / this.password: NoUser or set together
  serverCertPath,         \* TRUE when a CA path was given to the constructor
  rejectUnauthorized,     \* this.rejectUnauthorized
  socket,                 \* this.socket: Null or the id of a socket
  connectingPromise,      \* this.connectingPromise: Null or the id of a promise
  isAuthenticatedSession, \* this.isAuthenticatedSession
  authenticatedUser,      \* this.authenticatedUser: NoUser or a user name
  responseBuffer,         \* this.responseBuffer
  responseWaiter,         \* this.responseWaiter
  sock,                   \* the sockets made by tls.connect, one per attempt
  promise,                \* the promises made by connect(), one per attempt
  written,                \* per socket: the commands written, in order
  inflight,               \* per socket: bytes the server sent, not yet delivered
  call,                   \* the API calls made by user code
  ret,                    \* what the public function examined returned or threw
  value,                  \* the document user code passes to collectionItemSet
  legacy                  \* the legacy client (src/memory-tools-client.ts)

config == << username, serverCertPath, rejectUnauthorized >>
vars == << username, serverCertPath, rejectUnauthorized, socket, connectingPromise,
           isAuthenticatedSession, authenticatedUser, responseBuffer,
           responseWaiter, sock, promise, written, inflight, call, ret, value,
           legacy >>

Attempts == 1..MaxAttempts
Calls == 1..MaxCalls

\* The frames the server answers with.
FrameOK == [status |-> STATUS_OK, message |-> << 79, 75 >>, data |-> << >>]
FrameData == [status |-> STATUS_OK, message |-> << >>, data |-> << 123, 125 >>]
FrameDenied == [status |-> STATUS_UNAUTHORIZED, message |-> << 110, 111 >>, data |-> << >>]
AuthReplies == { FrameOK, FrameDenied }
CmdReplies == { FrameOK, FrameData }

\* The command the public API sends here: collectionCreate(name), an opcode
\* followed by a length-prefixed string.
Commands ==
  { [op |-> CMD_COLLECTION_CREATE, payload |-> WriteString(CollectionName)] }

\* ---- JSON.parse(data.toString("utf8")) on the documents examined: the
\* empty object, null, and numbers written in decimal digits (a leading
\* zero, an empty text or anything else is a SyntaxError).
JInvalid == [t |-> "invalid", n |-> 0]
JNull == [t |-> "null", n |-> 0]
JObject == [t |-> "object", n |-> 0]
JNumber(n) == [t |-> "number", n |-> n]

IsDigit(cp) == cp >= 48 /\ cp <= 57

RECURSIVE DecimalValue(_)
DecimalValue(text) ==
  IF text = << >> THEN 0
  ELSE 10 * DecimalValue(SubSeq(text, 1, Len(text) - 1)) + (text[Len(text)] - 48)

JsonParse(text) ==
  IF text = << 123, 125 >> THEN JObject
  ELSE IF text = << 110, 117, 108, 108 >> THEN JNull
  ELSE IF /\ text # << >>
          /\ \A i \in 1..Len(text) : IsDigit(text[i])
          /\ (Len(text) > 1 => text[1] # 48)
    THEN JNumber(DecimalValue(text))
  ELSE JInvalid

\* What a public function returned or threw: GetResult (lines 54-58) with
\* found, message and value, or an Error with its category and the status
\* string and server message of its text; str is the string returned by
\* getStatusString(arg).
NoRet ==
  [fn |-> "none", of |-> 0, threw |-> FALSE, found |-> FALSE, message |-> << >>,
   value |-> JNull, err |-> "none", detail |-> NoDetail, arg |-> 0, str |-> ""]

\* collectionItemGet treating NOT_FOUND like the other failures.
CollectionItemGetReturn_NotFoundThrows(c, response) ==
  IF response.status # STATUS_OK
    THEN [NoRet EXCEPT !.fn = "collectionItemGet", !.of = c, !.threw = TRUE,
                       !.err = "ItemGetFailed", !.detail = DetailOf(response)]
  ELSE LET v == JsonParse(Utf8Decode(response.data))
       IN IF v = JInvalid
            THEN [NoRet EXCEPT !.fn = "collectionItemGet", !.of = c, !.threw = TRUE,
                               !.err = "SyntaxError"]
            ELSE [NoRet EXCEPT !.fn = "collectionItemGet", !.of = c, !.found = TRUE,
                               !.message = response.message, !.value = v]

\* collectionItemGet after `await this.sendCommand(...)`, lines 550-562,
\* for call c whose sendCommand resolved with response.
CollectionItemGetReturn(c, response) ==
  IF response.status = STATUS_NOT_FOUND
    THEN [NoRet EXCEPT !.fn = "collectionItemGet", !.of = c,
                       !.message = response.message]
  ELSE IF response.status # STATUS_OK
    THEN [NoRet EXCEPT !.fn = "collectionItemGet", !.of = c, !.threw = TRUE,
                       !.err = "ItemGetFailed", !.detail = DetailOf(response)]
  ELSE LET v == JsonParse(Utf8Decode(response.data))
       IN IF v = JInvalid
            THEN [NoRet EXCEPT !.fn = "collectionItemGet", !.of = c, !.threw = TRUE,
                               !.err = "SyntaxError"]
            ELSE [NoRet EXCEPT !.fn = "collectionItemGet", !.of = c, !.found = TRUE,
                               !.message = response.message, !.value = v]

\* A document: an object whose _id property is id, or that has none.
NoDocument == [id |-> NoKey]
Documents == { NoDocument, [id |-> << 100 >>] }

\* JSON.stringify(value) of a document, as UTF-8 bytes.
JsonStringify(doc) ==
  IF doc.id = NoKey THEN << 123, 125 >>
  ELSE << 123, 34, 95, 105, 100, 34, 58, 34 >> \o Utf8Encode(doc.id) \o << 34, 125 >>

\* ttlBuffer.writeBigInt64LE(BigInt(ttlSeconds), 0) for 0 <= ttlSeconds < 2^31:
\* the low four bytes, then four zero bytes
WriteBigInt64LE(n) == WriteUInt32LE(n) \o WriteUInt32LE(0)

\* collectionItemSet, lines 444-455: the payload it builds.
CollectionItemSetPayload(collectionName, doc, key, ttlSeconds) ==
  LET itemKey == IF key = NoKey THEN << >> ELSE key
  IN WriteString(collectionName) \o WriteString(itemKey)
       \o WriteBytes(JsonStringify(doc)) \o WriteBigInt64LE(ttlSeconds)

\* collectionItemSet after `await this.sendCommand(...)`, lines 456-464.
CollectionItemSetReturn(c, response) ==
  IF response.status # STATUS_OK
    THEN [NoRet EXCEPT !.fn = "collectionItemSet", !.of = c, !.threw = TRUE,
                       !.err = "ItemSetFailed", !.detail = DetailOf(response)]
  ELSE LET v == JsonParse(Utf8Decode(response.data))
       IN IF v = JInvalid
            THEN [NoRet EXCEPT !.fn = "collectionItemSet", !.of = c, !.threw = TRUE,
                               !.err = "SyntaxError"]
            ELSE [NoRet EXCEPT !.fn = "collectionItemSet", !.of = c, !.value = v]

NoSock == [state |-> "none", closePending |-> FALSE, listener |-> FALSE]
NoPromise == [state |-> "unused", err |-> "none", detail |-> NoDetail]
NoCall ==
  [kind |-> "none", pc |-> "idle", op |-> 0, payload |-> << >>, awaits |-> Null,
   err |-> "none", detail |-> NoDetail, frame |-> NoFrame, wrote |-> Null]

\* The mutable state as one record, so that a handler is a composition of
\* the functions below, in the order of the statements of the source.
Cur ==
  [socket |-> socket, connectingPromise |-> connectingPromise,
   isAuthenticatedSession |-> isAuthenticatedSession,
   authenticatedUser |-> authenticatedUser, responseBuffer |-> responseBuffer,
   responseWaiter |-> responseWaiter, sock |-> sock, promise |-> promise,
   written |-> written, inflight |-> inflight, call |-> call]

Install(st) ==
  /\ socket' = st.socket
  /\ connectingPromise' = st.connectingPromise
  /\ isAuthenticatedSession' = st.isAuthenticatedSession
  /\ authenticatedUser' = st.authenticatedUser
  /\ responseBuffer' = st.responseBuffer
  /\ responseWaiter' = st.responseWaiter
  /\ sock' = st.sock
  /\ promise' = st.promise
  /\ written' = st.written
  /\ inflight' = st.inflight
  /\ call' = st.call
  /\ UNCHANGED << config, ret, value, legacy >>

SockOpen(st, s) == s # Null /\ st.sock[s].state \in { "connecting", "open" }

\* socket.destroy(): no further data is read, a close event will follow.
Destroy(st, s) ==
  IF SockOpen(st, s)
    THEN [st EXCEPT !.sock[s].state = "destroyed", !.sock[s].closePending = TRUE,
                    !.inflight[s] = << >>]
    ELSE st

\* A call whose connect() has resolved: a connect() call is settled, a
\* sendCommand call has its continuation (line 266) queued.
Connected(cr) ==
  IF cr.kind = "connect"
    THEN [cr EXCEPT !.pc = "resolved", !.awaits = Null]
    ELSE [cr EXCEPT !.pc = "ready", !.awaits = Null]

\* A call whose connect() has rejected: connect() and sendCommand throw it.
Rejected(cr, err, detail) ==
  [cr EXCEPT !.pc = "rejected", !.err = err, !.detail = detail, !.awaits = Null]

\* resolve(value) of the promise made by connect() for attempt p: the calls
\* that returned this promise resolve; a sendCommand awaiting it has its
\* continuation queued.
Resolve(st, p) ==
  IF st.promise[p].state # "pending" THEN st
  ELSE [st EXCEPT !.promise[p].state = "resolved",
         !.call = [c \in Calls |->
            IF st.call[c].pc = "awaitConnect" /\ st.call[c].awaits = p
              THEN Connected(st.call[c])
              ELSE st.call[c]]]

\* reject(err) of the promise made by connect() for attempt p.
Reject(st, p, err, detail) ==
  IF st.promise[p].state # "pending" THEN st
  ELSE [st EXCEPT !.promise[p] = [state |-> "rejected", err |-> err, detail |-> detail],
         !.call = [c \in Calls |->
            IF st.call[c].pc = "awaitConnect" /\ st.call[c].awaits = p
              THEN Rejected(st.call[c], err, detail)
              ELSE st.call[c]]]

\* cleanup() that leaves the receive buffer as it is.
Cleanup_KeepsBuffer(st, rejectOf, err) ==
  LET s1 == IF st.connectingPromise # Null /\ rejectOf # Null
              THEN Reject([st EXCEPT !.connectingPromise = Null], rejectOf, err, NoDetail)
              ELSE st
      s2 == Destroy(s1, s1.socket)
  IN [s2 EXCEPT !.socket = Null, !.connectingPromise = Null,
                !.isAuthenticatedSession = FALSE, !.authenticatedUser = NoUser]

\* cleanup(reject?, err?), lines 278-289.  rejectOf is the attempt whose
\* reject function was passed, Null when cleanup() is called without one.
Cleanup(st, rejectOf, err) ==
  LET s1 == IF st.connectingPromise # Null /\ rejectOf # Null
              THEN Reject([st EXCEPT !.connectingPromise = Null], rejectOf, err, NoDetail)
              ELSE st
      s2 == Destroy(s1, s1.socket)
  IN [s2 EXCEPT !.socket = Null, !.connectingPromise = Null,
                !.isAuthenticatedSession = FALSE, !.authenticatedUser = NoUser,
                !.responseBuffer = << >>]

\* this.socket.write(bytes) on socket s.  `by` names the writer and `reply`
\* the frame the server answers with; a socket that is no longer open
\* carries nothing to the server.
Write(st, s, bytes, by, reply) ==
  LET s1 == [st EXCEPT !.written[s] =
                Append(@, [bytes |-> bytes, by |-> by, reply |-> reply])]
  IN IF st.sock[s].state = "open"
       THEN [s1 EXCEPT !.inflight[s] = @ \o EncodeResponse(reply)]
       ELSE s1

\* performAuthentication setting the flag without recording the user.
AuthContinuation_FlagOnly(st, a, frame) ==
  IF frame.status = STATUS_OK
    THEN LET s1 == [st EXCEPT !.isAuthenticatedSession = TRUE]
         IN [Resolve(s1, a) EXCEPT !.connectingPromise = Null]
    ELSE [Reject(Cleanup(st, Null, "none"), a, "AuthenticationFailed", DetailOf(frame))
            EXCEPT !.connectingPromise = Null]

\* The continuation of performAuthentication throwing without cleanup().
AuthContinuation_NoCleanup(st, a, frame) ==
  IF frame.status = STATUS_OK
    THEN LET s1 == [st EXCEPT !.isAuthenticatedSession = TRUE,
                              !.authenticatedUser = username]
         IN [Resolve(s1, a) EXCEPT !.connectingPromise = Null]
    ELSE [Reject(st, a, "AuthenticationFailed", DetailOf(frame))
            EXCEPT !.connectingPromise = Null]

\* Continuation of performAuthentication after `await this.waitForResponse()`
\* (lines 242-251) followed by the continuation of the secureConnect callback
\* (lines 175-180).  Both are promise reactions queued by the step that
\* delivers the frame, and run before any other event.
AuthContinuation(st, a, frame) ==
  IF frame.status = STATUS_OK
    THEN LET s1 == [st EXCEPT !.isAuthenticatedSession = TRUE,
                              !.authenticatedUser = username]
         IN [Resolve(s1, a) EXCEPT !.connectingPromise = Null]
    ELSE [Reject(Cleanup(st, Null, "none"), a, "AuthenticationFailed", DetailOf(frame))
            EXCEPT !.connectingPromise = Null]

\* waiter(response), line 225: the promise of waitForResponse resolves.
Deliver(st, w, frame) ==
  IF w.kind = "cmd"
    THEN [st EXCEPT !.call[w.id].pc = "resolved", !.call[w.id].frame = frame]
    ELSE AuthContinuation(st, w.id, frame)

\* tryProcessResponse(), lines 198-228, on the client state.
TryProcessResponse(st) ==
  LET r == TryProcess(st.responseBuffer, st.responseWaiter)
      s1 == [st EXCEPT !.responseBuffer = r.buffer, !.responseWaiter = r.waiter]
  IN IF r.delivered THEN Deliver(s1, r.to, r.frame) ELSE s1

\* waitForResponse that registers the waiter and does not look at the buffer.
WaitForResponse_NoDrain(st, w) ==
  [st EXCEPT !.responseWaiter = w]

\* waitForResponse(), lines 254-259.
WaitForResponse(st, w) ==
  TryProcessResponse([st EXCEPT !.responseWaiter = w])

\* performAuthentication up to its await, lines 234-241.
PerformAuthentication(st, a, reply) ==
  LET payload == WriteString(username) \o WriteString(Password)
      s1 == Write(st, st.socket, << CMD_AUTHENTICATE >> \o payload,
                  AuthWaiter(a), reply)
  IN WaitForResponse(s1, AuthWaiter(a))

\* setupSocketListeners(), lines 190-196.
SetupSocketListeners(st) ==
  IF st.socket = Null THEN st ELSE [st EXCEPT !.sock[st.socket].listener = TRUE]

\* ---------------------------------------------------------------- connect
UnusedAttempts(st) == { a \in Attempts : st.promise[a].state = "unused" }
NextAttempt(st) == CHOOSE a \in UnusedAttempts(st) : \A b \in UnusedAttempts(st) : a <= b

\* connect() returns at line 137 or 140 without opening a socket.
ConnectReuses(st) ==
  \/ st.socket # Null /\ st.sock[st.socket].state # "destroyed"
  \/ st.connectingPromise # Null

\* connect() without the early return of lines 136-138.
Connect_NoReuse(st, c, cr, certFails) ==
  IF st.connectingPromise # Null
    THEN LET p == st.connectingPromise
         IN [st EXCEPT !.call[c] =
               CASE st.promise[p].state = "pending" ->
                      [cr EXCEPT !.pc = "awaitConnect", !.awaits = p]
                 [] st.promise[p].state = "rejected" ->
                      Rejected(cr, st.promise[p].err, st.promise[p].detail)
                 [] OTHER -> Connected(cr)]
  ELSE IF UnusedAttempts(st) = {} THEN [st EXCEPT !.call[c] = Connected(cr)]
  ELSE LET a == NextAttempt(st)
       IN [st EXCEPT
             !.promise[a] = [state |-> "pending", err |-> "none", detail |-> NoDetail],
             !.sock[a] = [state |-> "connecting", closePending |-> FALSE,
                          listener |-> FALSE],
             !.connectingPromise = a,
             !.call[c] = [cr EXCEPT !.pc = "awaitConnect", !.awaits = a]]

\* connect(), lines 135-188, up to its return, made by call c whose record
\* is cr.  certFails: fs.readFileSync throws (only read when
\* serverCertPath is set).
Connect(st, c, cr, certFails) ==
  IF st.socket # Null /\ st.sock[st.socket].state # "destroyed"
    THEN [st EXCEPT !.call[c] = Connected(cr)]
  ELSE IF st.connectingPromise # Null
    THEN LET p == st.connectingPromise
         IN [st EXCEPT !.call[c] =
               CASE st.promise[p].state = "pending" ->
                      [cr EXCEPT !.pc = "awaitConnect", !.awaits = p]
                 [] st.promise[p].state = "rejected" ->
                      Rejected(cr, st.promise[p].err, st.promise[p].detail)
                 [] OTHER -> Connected(cr)]
  ELSE LET a == NextAttempt(st)
       IN IF serverCertPath /\ certFails
            THEN [st EXCEPT
                    !.promise[a] = [state |-> "rejected", err |-> "CertificateRead",
                                    detail |-> NoDetail],
                    !.connectingPromise = a,
                    !.call[c] = Rejected(cr, "CertificateRead", NoDetail)]
            ELSE [st EXCEPT
                    !.promise[a] = [state |-> "pending", err |-> "none",
                                    detail |-> NoDetail],
                    !.sock[a] = [state |-> "connecting", closePending |-> FALSE,
                                 listener |-> FALSE],
                    !.connectingPromise = a,
                    !.call[c] = [cr EXCEPT !.pc = "awaitConnect", !.awaits = a]]

\* The event loop runs a socket event only when no continuation is queued.
NoMicrotask == \A c \in Calls : call[c].pc # "ready"

FreshCall(c) ==
  /\ call[c].kind = "none"
  /\ \A d \in Calls : d < c => call[d].kind # "none"

CanConnect(st) == ConnectReuses(st) \/ UnusedAttempts(st) # {}

\* User code calls client.connect().
CallConnect(c) ==
  /\ FreshCall(c)
  /\ CanConnect(Cur)
  /\ \E certFails \in BOOLEAN :
       /\ Install(Connect(Cur, c, [NoCall EXCEPT !.kind = "connect"], certFails))

\* User code calls a public command method, which calls
\* sendCommand(commandType, payloadBuffer): lines 261-265, up to the await.
CallSendCommand(c) ==
  /\ FreshCall(c)
  /\ CanConnect(Cur)
  /\ \E cmd \in Commands, certFails \in BOOLEAN :
       /\ Install(Connect(Cur, c,
            [NoCall EXCEPT !.kind = "sendCommand", !.op = cmd.op,
                           !.payload = cmd.payload], certFails))

\* sendCommand without the authentication gate of line 267.
SendCommandBody_NoGate(st, c, reply) ==
  IF st.socket = Null
    THEN [st EXCEPT !.call[c].pc = "rejected", !.call[c].err = "NotConnected"]
  ELSE LET commandBuffer == << st.call[c].op >> \o st.call[c].payload
           s1 == Write(st, st.socket, commandBuffer, CmdWaiter(c), reply)
           s2 == [s1 EXCEPT !.call[c].pc = "waiting", !.call[c].wrote = st.socket]
       IN [s2 EXCEPT !.responseWaiter = CmdWaiter(c)]

\* sendCommand that writes the payload without the opcode byte.
SendCommandBody_PayloadOnly(st, c, reply) ==
  IF st.socket = Null
    THEN [st EXCEPT !.call[c].pc = "rejected", !.call[c].err = "NotConnected"]
  ELSE IF st.call[c].op # CMD_AUTHENTICATE /\ ~st.isAuthenticatedSession
    THEN [st EXCEPT !.call[c].pc = "rejected", !.call[c].err = "NotAuthenticated"]
  ELSE LET s1 == Write(st, st.socket, st.call[c].payload, CmdWaiter(c), reply)
           s2 == [s1 EXCEPT !.call[c].pc = "waiting", !.call[c].wrote = st.socket]
       IN WaitForResponse(s2, CmdWaiter(c))

\* sendCommand that writes the command before it tests the session.
SendCommandBody_WriteFirst(st, c, reply) ==
  IF st.socket = Null
    THEN [st EXCEPT !.call[c].pc = "rejected", !.call[c].err = "NotConnected"]
  ELSE LET commandBuffer == << st.call[c].op >> \o st.call[c].payload
           s1 == Write(st, st.socket, commandBuffer, CmdWaiter(c), reply)
           s2 == [s1 EXCEPT !.call[c].pc = "waiting", !.call[c].wrote = st.socket]
       IN IF st.call[c].op # CMD_AUTHENTICATE /\ ~st.isAuthenticatedSession
            THEN [s1 EXCEPT !.call[c].pc = "rejected", !.call[c].err = "NotAuthenticated"]
            ELSE WaitForResponse(s2, CmdWaiter(c))

\* sendCommand after `await this.connect()`, lines 266-275.
SendCommandBody(st, c, reply) ==
  IF st.socket = Null
    THEN [st EXCEPT !.call[c].pc = "rejected", !.call[c].err = "NotConnected"]
  ELSE IF st.call[c].op # CMD_AUTHENTICATE /\ ~st.isAuthenticatedSession
    THEN [st EXCEPT !.call[c].pc = "rejected", !.call[c].err = "NotAuthenticated"]
  ELSE LET commandBuffer == << st.call[c].op >> \o st.call[c].payload
           s1 == Write(st, st.socket, commandBuffer, CmdWaiter(c), reply)
           s2 == [s1 EXCEPT !.call[c].pc = "waiting", !.call[c].wrote = st.socket]
       IN WaitForResponse(s2, CmdWaiter(c))

SendCommandResume(c) ==
  /\ call[c].pc = "ready"
  /\ \E reply \in CmdReplies :
       /\ Install(SendCommandBody(Cur, c, reply))

\* close() that ends the socket and resets the authentication fields but
\* keeps the socket handle.
Close_KeepsHandle(st) ==
  [Destroy(st, st.socket) EXCEPT !.isAuthenticatedSession = FALSE,
                                 !.authenticatedUser = NoUser]

\* close(), lines 291-296.  socket.end() is followed at once by the
\* destroy() of cleanup.
Close(st) == Cleanup(st, Null, "none")

CallClose ==
  /\ Install(Close(Cur))

\* ---------------------------------------------------------- socket events
\* The callback of tls.connect authenticating whether or not credentials
\* were given.
SecureConnectBody_AlwaysAuth(st, a, authorized, reply) ==
  LET s0 == [st EXCEPT !.sock[a].state = "open"]
  IN IF ~authorized /\ rejectUnauthorized
       THEN Reject(s0, a, "TlsUnauthorized", NoDetail)
     ELSE PerformAuthentication(SetupSocketListeners([s0 EXCEPT !.socket = a]), a, reply)

\* The callback of tls.connect, lines 159-181, for the socket of attempt a.
SecureConnectBody(st, a, authorized, reply) ==
  LET s0 == [st EXCEPT !.sock[a].state = "open"]
  IN IF ~authorized /\ rejectUnauthorized
       THEN Reject(s0, a, "TlsUnauthorized", NoDetail)
     ELSE LET s1 == SetupSocketListeners([s0 EXCEPT !.socket = a])
          IN IF username # NoUser
               THEN PerformAuthentication(s1, a, reply)
               ELSE [Resolve(s1, a) EXCEPT !.connectingPromise = Null]

SecureConnect(a) ==
  /\ NoMicrotask
  /\ sock[a].state = "connecting"
  /\ \E authorized \in BOOLEAN, reply \in AuthReplies :
       /\ Install(SecureConnectBody(Cur, a, authorized, reply))

\* The data listener replacing responseBuffer by the chunk instead of
\* appending the chunk to it.
DataBody_DropsBuffered(st, a, k) ==
  LET chunk == SubSeq(st.inflight[a], 1, k)
      s1 == [st EXCEPT !.inflight[a] = SubSeqFrom(@, k),
                       !.responseBuffer = chunk]
  IN TryProcessResponse(s1)

\* socket.on("data"), lines 192-195: the first k bytes in flight arrive.
DataBody(st, a, k) ==
  LET chunk == SubSeq(st.inflight[a], 1, k)
      s1 == [st EXCEPT !.inflight[a] = SubSeqFrom(@, k),
                       !.responseBuffer = @ \o chunk]
  IN TryProcessResponse(s1)

\* The sizes of the chunk the transport may hand over: all the bytes in
\* flight, or the first ChunkLen of them.  (Every split of a frame is
\* examined by the decoder specification below.)
ChunkSizes(bytes) == { k \in { ChunkLen, Len(bytes) } : k >= 1 /\ k <= Len(bytes) }

Data(a) ==
  /\ NoMicrotask
  /\ sock[a].state = "open"
  /\ sock[a].listener
  /\ \E k \in ChunkSizes(inflight[a]) : Install(DataBody(Cur, a, k))

\* socket.on("error"), line 183.  The socket is destroyed by the runtime and
\* its close event follows.
ErrorBody(st, a) == Cleanup(Destroy(st, a), a, "SocketError")

SocketError(a) ==
  /\ NoMicrotask
  /\ SockOpen(Cur, a)
  /\ Install(ErrorBody(Cur, a))

\* socket.on("close"), line 184: after an error or a destroy(), or when the
\* peer ends the connection.
CloseBody(st, a) ==
  Cleanup([Destroy(st, a) EXCEPT !.sock[a].closePending = FALSE], Null, "none")

SocketClose(a) ==
  /\ NoMicrotask
  /\ SockOpen(Cur, a) \/ sock[a].closePending
  /\ Install(CloseBody(Cur, a))

\* ------------------------------------------------------ the legacy client
\* src/memory-tools-client.ts: the client that reads a response with five
\* successive readNBytes calls on the socket instead of a response buffer.
\* Its state is one record: the fields of the object, the sockets made by
\* tls.connect and the promises made by connect() (one per attempt), the
\* running sendCommand executions and the API calls of user code.
\*
\* A sendCommand execution belongs either to the performAuthentication of
\* the secureConnect callback of attempt a, or to API call c.
LegacyExecs == 1..(MaxAttempts + MaxCalls)
CallbackExec(a) == a
CallExec(c) == MaxAttempts + c
IsCallbackExec(e) == e <= MaxAttempts
CallOfExec(e) == e - MaxAttempts

NoLegacySock ==
  [state |-> "none", ended |-> FALSE, closePending |-> FALSE, flowing |-> FALSE,
   listeners |-> << >>, written |-> << >>, inflight |-> << >>]
NoExec ==
  [stage |-> "idle", on |-> Null, op |-> 0, n |-> 0, buffer |-> << >>,
   status |-> 0, message |-> << >>, data |-> << >>, err |-> "none"]
NoLegacyCall ==
  [kind |-> "none", pc |-> "idle", awaits |-> Null, err |-> "none",
   frame |-> NoFrame]
NoLegacy ==
  [socket |-> Null, connectingPromise |-> Null,
   isAuthenticatedSession |-> FALSE, authenticatedUser |-> NoUser,
   crashed |-> FALSE,
   sock |-> [a \in Attempts |-> NoLegacySock],
   promise |-> [a \in Attempts |-> NoPromise],
   exec |-> [e \in LegacyExecs |-> NoExec],
   call |-> [c \in Calls |-> NoLegacyCall]]

\* this.socket && !this.socket.destroyed: a socket is destroyed by destroy(),
\* by an error and by its closing; end() only sets `ended`.
LegacyLive(L) ==
  L.socket # Null /\ L.sock[L.socket].state \in { "connecting", "open" }

\* resolve / reject of the promise of attempt a: a settled promise stays as
\* it is; every connect() awaiting it continues.
LegacySettle(L, a, state, err) ==
  IF L.promise[a].state # "pending" THEN L
  ELSE [L EXCEPT
          !.promise[a].state = state,
          !.promise[a].err = err,
          !.call = [c \in Calls |->
                      IF L.call[c].pc = "awaiting" /\ L.call[c].awaits = a
                        THEN [L.call[c] EXCEPT
                                !.pc = IF state = "resolved" THEN "resolved"
                                       ELSE "rejected",
                                !.err = err]
                      ELSE L.call[c]]]

\* this.socket?.destroy()
LegacyDestroy(L) ==
  IF LegacyLive(L)
    THEN [L EXCEPT !.sock[L.socket].state = "destroyed",
                   !.sock[L.socket].closePending = TRUE]
  ELSE L

\* What follows a performAuthentication that threw err: in the secureConnect
\* callback (lines 703-706) the socket is destroyed and the promise rejected,
\* in the already-connected branch of connect() (lines 633-643) the error
\* leaves connect().
LegacyAuthThrew(L, e, err) ==
  IF IsCallbackExec(e)
    THEN LegacySettle(LegacyDestroy(L), e, "rejected", err)
  ELSE [L EXCEPT !.call[CallOfExec(e)].pc = "rejected",
                 !.call[CallOfExec(e)].err = err]

\* performAuthentication after its sendCommand returned (lines 753-768), and
\* its caller: resolve(this.socket) in the callback, return this.socket in
\* connect().
LegacyPerformAuthentication(L, e) ==
  IF L.exec[e].status = STATUS_OK
    THEN LET L1 == [L EXCEPT !.isAuthenticatedSession = TRUE,
                             !.authenticatedUser = username]
         IN IF IsCallbackExec(e)
              THEN LegacySettle(L1, e, "resolved", "none")
            ELSE [L1 EXCEPT !.call[CallOfExec(e)].pc = "resolved"]
  ELSE LegacyAuthThrew([L EXCEPT !.isAuthenticatedSession = FALSE,
                                 !.authenticatedUser = NoUser],
                       e, "auth")

\* sendCommand returns { status, message, data } (line 812) to its caller.
LegacySendCommandReturn(L, e) ==
  LET L1 == [L EXCEPT !.exec[e].stage = "done"]
  IN IF L.exec[e].op = CMD_AUTHENTICATE
       THEN LegacyPerformAuthentication(L1, e)
     ELSE [L1 EXCEPT !.call[CallOfExec(e)].pc = "resolved",
                     !.call[CallOfExec(e)].frame =
                        [status |-> L.exec[e].status,
                         message |-> L.exec[e].message,
                         data |-> L.exec[e].data]]

\* sendCommand throws err: an awaited readNBytes rejected, or it could not
\* be called.
LegacySendCommandThrow(L, e, err) ==
  LET L1 == [L EXCEPT !.exec[e].stage = "failed", !.exec[e].err = err]
  IN IF L.exec[e].op = CMD_AUTHENTICATE
       THEN LegacyAuthThrew(L1, e, err)
     ELSE [L1 EXCEPT !.call[CallOfExec(e)].pc = "rejected",
                     !.call[CallOfExec(e)].err = err]

\* readNBytes(this.socket!, n) (lines 560-591) called by sendCommand for the
\* field `stage`, and LegacyResume, the continuation of sendCommand once
\* that promise resolved with exec.buffer (lines 794-812). n = 0 resolves
\* at once with an empty buffer; otherwise a data listener starting from an
\* empty buffer is added on the socket the client holds now.
\* readUInt32LE(0) of a four-byte length field as sendCommand uses it: the
\* number of bytes to wait for. A length of 2^24 or more (a nonzero fourth
\* byte) is kept as 2^24, more bytes than any server sends here.
LegacyReadLength(buf) ==
  IF buf[4] = 0 THEN ReadUInt32LE(buf, 0) ELSE 256 * 65536

RECURSIVE LegacyReadNBytes(_, _, _, _)
RECURSIVE LegacyResume(_, _)
LegacyReadNBytes(L, e, n, stage) ==
  LET L1 == [L EXCEPT !.exec[e].stage = stage, !.exec[e].n = n,
                      !.exec[e].buffer = << >>, !.exec[e].on = L.socket]
  IN IF n = 0 THEN LegacyResume(L1, e)
     ELSE IF L.socket = Null THEN LegacySendCommandThrow(L1, e, "TypeError")
     ELSE [L1 EXCEPT !.sock[L.socket].listeners = Append(@, e),
                     !.sock[L.socket].flowing = TRUE]

LegacyResume(L, e) ==
  LET x == L.exec[e]
  IN CASE x.stage = "status" ->
            LegacyReadNBytes([L EXCEPT !.exec[e].status = x.buffer[1]],
                             e, 4, "msgLen")
       [] x.stage = "msgLen" ->
            LegacyReadNBytes(L, e, LegacyReadLength(x.buffer), "message")
       [] x.stage = "message" ->
            LegacyReadNBytes([L EXCEPT !.exec[e].message = Utf8Decode(x.buffer)],
                             e, 4, "dataLen")
       [] x.stage = "dataLen" ->
            IF LegacyReadLength(x.buffer) > 0
              THEN LegacyReadNBytes(L, e, LegacyReadLength(x.buffer), "data")
            ELSE LegacySendCommandReturn([L EXCEPT !.exec[e].data = << >>], e)
       [] x.stage = "data" ->
            LegacySendCommandReturn([L EXCEPT !.exec[e].data = x.buffer], e)
       [] OTHER -> L

\* onData of the readNBytes of execution e (lines 570-580): the first
\* min(chunk.length, n - bytesRead) bytes of the chunk are copied, the rest
\* of the chunk is not kept anywhere.
LegacyOnData(x, chunk) ==
  LET bytesToCopy == IF Len(chunk) < x.n - Len(x.buffer) THEN Len(chunk)
                     ELSE x.n - Len(x.buffer)
  IN [x EXCEPT !.buffer = @ \o SubSeq(chunk, 1, bytesToCopy)]

RECURSIVE LegacyResumeAll(_, _)
LegacyResumeAll(L, es) ==
  IF es = << >> THEN L
  ELSE LegacyResumeAll(LegacyResume(L, Head(es)), Tail(es))

\* A data event of socket a carrying the next k bytes: every data listener
\* registered at that moment gets the chunk, in the order of registration;
\* a listener that has its n bytes removes itself and resolves, and the
\* continuations run after the event, in the order of resolution. A flowing
\* socket without a data listener drops the chunk.
LegacyDataBody(L, a, k) ==
  LET chunk == SubSeq(L.sock[a].inflight, 1, k)
      ls == L.sock[a].listeners
      fed == [e \in LegacyExecs |->
                IF \E i \in 1..Len(ls) : ls[i] = e
                  THEN LegacyOnData(L.exec[e], chunk)
                ELSE L.exec[e]]
      Full(e) == Len(fed[e].buffer) >= fed[e].n
      Pending(e) == ~Full(e)
      L1 == [L EXCEPT !.sock[a].inflight = SubSeqFrom(@, k),
                      !.sock[a].listeners = SelectSeq(ls, Pending),
                      !.exec = fed]
  IN LegacyResumeAll(L1, SelectSeq(ls, Full))

\* socket.write(commandBuffer) on the socket the client holds (line 794);
\* the server answers a command it receives with `reply`. Nothing is sent
\* on a socket that was ended or destroyed.
LegacyWrite(L, e, op, reply) ==
  IF L.sock[L.socket].state \in { "connecting", "open" } /\ ~L.sock[L.socket].ended
    THEN [L EXCEPT
            !.sock[L.socket].written =
               Append(@, [op |-> op, by |-> e, reply |-> reply]),
            !.sock[L.socket].inflight = @ \o EncodeResponse(reply)]
  ELSE L

\* sendCommand up to its first await (lines 773-797). A command other than
\* AUTHENTICATE is refused without a live authenticated session; for
\* AUTHENTICATE on a destroyed socket connect() is awaited, which returns
\* the promise the client holds: a rejected one makes sendCommand throw. (A
\* callback finding the socket destroyed and that promise not rejected takes
\* three sockets open at once, hence five attempts; the execution then stays
\* at "connect".)
LegacySendCommand(L, e, op, reply) ==
  LET L1 == [L EXCEPT !.exec[e] = [NoExec EXCEPT !.op = op]]
  IN IF ~LegacyLive(L) \/ (~L.isAuthenticatedSession /\ op # CMD_AUTHENTICATE)
       THEN IF op # CMD_AUTHENTICATE
              THEN LegacySendCommandThrow(L1, e, "notConnected")
            ELSE IF L.connectingPromise # Null
                    /\ L.promise[L.connectingPromise].state = "rejected"
              THEN LegacySendCommandThrow(L1, e, L.promise[L.connectingPromise].err)
            ELSE [L1 EXCEPT !.exec[e].stage = "connect"]
     ELSE LegacyReadNBytes(LegacyWrite(L1, e, op, reply), e, 1, "status")

\* connect() called by API call c (lines 632-743). `fresh` is the attempt
\* whose socket and promise a new connection would use, certOk whether the
\* certificate file can be read.
LegacyConnect(L, c, fresh, certOk, reply) ==
  LET L1 == [L EXCEPT !.call[c].kind = "connect"]
  IN IF LegacyLive(L)
       THEN IF ~L.isAuthenticatedSession /\ username # NoUser
              THEN LET L2 == [L1 EXCEPT !.call[c].pc = "authenticating"]
                   IN LegacySendCommand(L2, CallExec(c), CMD_AUTHENTICATE, reply)
            ELSE [L1 EXCEPT !.call[c].pc = "resolved"]
     ELSE IF L.connectingPromise # Null
       THEN LET p == L.promise[L.connectingPromise]
            IN [L1 EXCEPT !.call[c].awaits = L.connectingPromise,
                          !.call[c].pc = CASE p.state = "resolved" -> "resolved"
                                           [] p.state = "rejected" -> "rejected"
                                           [] OTHER -> "awaiting",
                          !.call[c].err = p.err]
     ELSE LET L2 == [L1 EXCEPT !.connectingPromise = fresh,
                               !.promise[fresh].state = "pending",
                               !.call[c].awaits = fresh,
                               !.call[c].pc = "awaiting"]
          IN IF serverCertPath /\ ~certOk
               THEN LegacySettle(L2, fresh, "rejected", "cert")
             ELSE [L2 EXCEPT !.socket = fresh,
                             !.sock[fresh].state = "connecting"]

\* The callback given to tls.connect (lines 695-717), run for socket a.
\* this.socket is read when the callback runs: without a socket the read of
\* this.socket!.authorized throws outside any promise.
LegacySecureConnectBody(L, a, authorized, reply) ==
  LET L1 == [L EXCEPT !.sock[a].state = "open"]
  IN IF L1.socket = Null THEN [L1 EXCEPT !.crashed = TRUE]
     ELSE IF authorized \/ ~rejectUnauthorized
       THEN IF username # NoUser
              THEN LegacySendCommand(L1, CallbackExec(a), CMD_AUTHENTICATE, reply)
            ELSE LegacySettle(L1, a, "resolved", "none")
     ELSE LegacySettle(L1, a, "rejected", "unauthorized")

\* The fields the error and close listeners reset (lines 722-725, 730-733).
LegacyReset(L) ==
  [L EXCEPT !.socket = Null, !.connectingPromise = Null,
            !.isAuthenticatedSession = FALSE, !.authenticatedUser = NoUser]

RECURSIVE LegacyThrowAll(_, _, _)
LegacyThrowAll(L, es, err) ==
  IF es = << >> THEN L
  ELSE LegacyThrowAll(LegacySendCommandThrow(L, Head(es), err), Tail(es), err)

\* An error event of socket a: the listener of connect() (lines 719-726)
\* rejects the promise of the attempt and resets the fields, then the
\* onError of every readNBytes on the socket (lines 582-586) rejects.
LegacySocketErrorBody(L, a) ==
  LET ls == L.sock[a].listeners
      L1 == [L EXCEPT !.sock[a].state = "destroyed",
                      !.sock[a].closePending = TRUE,
                      !.sock[a].listeners = << >>]
  IN LegacyThrowAll(LegacyReset(LegacySettle(L1, a, "rejected", "socket")),
                    ls, "socket")

\* A close event of socket a (lines 728-734): the fields are reset; a
\* readNBytes still listening on the socket is not told.
LegacySocketCloseBody(L, a) ==
  LegacyReset([L EXCEPT !.sock[a].state = "closed",
                        !.sock[a].closePending = FALSE])

\* close() (lines 1042-1048).
LegacyClose(L) ==
  LET L1 == IF LegacyLive(L) THEN [L EXCEPT !.sock[L.socket].ended = TRUE]
            ELSE L
  IN [L1 EXCEPT !.isAuthenticatedSession = FALSE, !.authenticatedUser = NoUser]

\* ---------------------------------------------------------- specification
\* The constructor arguments examined: credentials with a CA file and
\* certificate verification (the default), and an anonymous client without
\* a CA file and without verification.
Configs ==
  { [username |-> Username, serverCertPath |-> TRUE, rejectUnauthorized |-> TRUE],
    [username |-> NoUser, serverCertPath |-> FALSE, rejectUnauthorized |-> FALSE] }

Init ==
  /\ legacy = NoLegacy
  /\ \E cfg \in Configs :
       /\ username = cfg.username
       /\ serverCertPath = cfg.serverCertPath
       /\ rejectUnauthorized = cfg.rejectUnauthorized
  /\ socket = Null
  /\ connectingPromise = Null
  /\ isAuthenticatedSession = FALSE
  /\ authenticatedUser = NoUser
  /\ responseBuffer = << >>
  /\ responseWaiter = NoWaiter
  /\ sock = [a \in Attempts |-> NoSock]
  /\ promise = [a \in Attempts |-> NoPromise]
  /\ written = [a \in Attempts |-> << >>]
  /\ inflight = [a \in Attempts |-> << >>]
  /\ call = [c \in Calls |-> NoCall]
  /\ ret = NoRet
  /\ value = NoDocument

Next ==
  \/ \E c \in Calls : CallConnect(c)
  \/ \E c \in Calls : CallSendCommand(c)
  \/ \E c \in Calls : SendCommandResume(c)
  \/ CallClose
  \/ \E a \in Attempts : SecureConnect(a)
  \/ \E a \in Attempts : Data(a)
  \/ \E a \in Attempts : SocketError(a)
  \/ \E a \in Attempts : SocketClose(a)

Spec == Init /\ [][Next]_vars

\* ------------------------------------------------- decoder specification
\* The receive path alone: an authenticated session on socket 1 whose
\* server has sent 1..MaxFrames encoded frames (recorded as the replies of
\* written[1]); the transport hands them over in chunks of any size and the
\* callers wait one after another.
CodecFrames ==
  [status : { 1, 255 },
   message : { << >>, << 79, 75 >>, << 233 >> },
   data : { << >>, << 9, 0 >> }]

RECURSIVE SeqsUpTo(_, _)
SeqsUpTo(S, n) ==
  IF n = 0 THEN { << >> }
  ELSE LET shorter == SeqsUpTo(S, n - 1)
       IN shorter \cup { Append(q, x) : q \in { r \in shorter : Len(r) = n - 1 }, x \in S }

RECURSIVE EncodeAll(_)
EncodeAll(frames) ==
  IF frames = << >> THEN << >>
  ELSE EncodeResponse(Head(frames)) \o EncodeAll(Tail(frames))

DecInit ==
  /\ legacy = NoLegacy
  /\ username = Username
  /\ serverCertPath = TRUE
  /\ rejectUnauthorized = TRUE
  /\ socket = 1
  /\ connectingPromise = Null
  /\ isAuthenticatedSession = TRUE
  /\ authenticatedUser = Username
  /\ responseBuffer = << >>
  /\ responseWaiter = CmdWaiter(1)
  /\ sock = [a \in Attempts |->
       IF a = 1 THEN [state |-> "open", closePending |-> FALSE, listener |-> TRUE]
       ELSE NoSock]
  /\ promise = [a \in Attempts |->
       IF a = 1 THEN [state |-> "resolved", err |-> "none", detail |-> NoDetail]
       ELSE NoPromise]
  /\ \E frames \in SeqsUpTo(CodecFrames, MaxFrames) :
       /\ frames # << >>
       /\ written = [a \in Attempts |->
            IF a = 1
              THEN [i \in 1..Len(frames) |->
                      [bytes |-> << CMD_BEGIN >>, by |-> NoWaiter, reply |-> frames[i]]]
              ELSE << >>]
       /\ inflight = [a \in Attempts |-> IF a = 1 THEN EncodeAll(frames) ELSE << >>]
  /\ call = [c \in Calls |->
       IF c = 1
         THEN [NoCall EXCEPT !.kind = "sendCommand", !.pc = "waiting",
                             !.op = CMD_BEGIN, !.wrote = 1]
         ELSE NoCall]
  /\ ret = NoRet
  /\ value = NoDocument

\* A data event carrying the first k bytes in flight, for every k.
DecData ==
  /\ \E k \in 1..Len(inflight[1]) : Install(DataBody(Cur, 1, k))

\* The next caller reaches waitForResponse().
DecWait(c) ==
  /\ FreshCall(c)
  /\ responseWaiter = NoWaiter
  /\ Install(WaitForResponse(
       [Cur EXCEPT !.call[c] = [NoCall EXCEPT !.kind = "sendCommand", !.pc = "waiting",
                                              !.op = CMD_BEGIN, !.wrote = 1]],
       CmdWaiter(c)))

DecNext ==
  \/ DecData
  \/ \E c \in Calls : DecWait(c)

SpecDecoder == DecInit /\ [][DecNext]_vars

\* ----------------------------------------------- read-command specification
\* collectionItemGet on an authenticated session over socket 1: the command
\* is issued, written, answered by the server with any frame of GetReplies,
\* decoded by the receive path and turned into the function's result.
StatusBytes == 0..255
GetStatuses == (0..7) \cup { 255 }
TtlSeconds == { 0, 300 }
GetDocuments ==
  { << 123, 125 >>, << 52, 50 >>, << 110, 117, 108, 108 >>, << 48, 55 >>, << >> }
GetReplies ==
  [status : GetStatuses, message : { << >>, << 110, 111 >> }, data : GetDocuments]

engine == << config, socket, connectingPromise, isAuthenticatedSession,
             authenticatedUser, responseBuffer, responseWaiter, sock, promise,
             written, inflight, call, legacy >>

ApiInit ==
  /\ legacy = NoLegacy
  /\ username = Username
  /\ serverCertPath = TRUE
  /\ rejectUnauthorized = TRUE
  /\ socket = 1
  /\ connectingPromise = Null
  /\ isAuthenticatedSession = TRUE
  /\ authenticatedUser = Username
  /\ responseBuffer = << >>
  /\ responseWaiter = NoWaiter
  /\ sock = [a \in Attempts |->
       IF a = 1 THEN [state |-> "open", closePending |-> FALSE, listener |-> TRUE]
       ELSE NoSock]
  /\ promise = [a \in Attempts |->
       IF a = 1 THEN [state |-> "resolved", err |-> "none", detail |-> NoDetail]
       ELSE NoPromise]
  /\ written = [a \in Attempts |-> << >>]
  /\ inflight = [a \in Attempts |-> << >>]
  /\ call = [c \in Calls |-> NoCall]
  /\ ret = NoRet
  /\ value \in Documents

\* collectionItemGet(collectionName, key), lines 541-550, up to the await
\* inside sendCommand.  User code awaits the call (src/test.js 312-322), so
\* no other call is outstanding.
CallCollectionItemGet(c) ==
  /\ FreshCall(c)
  /\ \A d \in Calls : call[d].kind = "none"
  /\ ret = NoRet
  /\ Install(Connect(Cur, c,
       [NoCall EXCEPT !.kind = "sendCommand", !.op = CMD_COLLECTION_ITEM_GET,
                      !.payload = WriteString(CollectionName) \o WriteString(Key)],
       FALSE))

\* collectionItemSet(collectionName, value, key, ttlSeconds), lines 438-456,
\* up to the await inside sendCommand; the caller awaits the call.
CallCollectionItemSet(c, key) ==
  /\ FreshCall(c)
  /\ \A d \in Calls : call[d].kind = "none"
  /\ ret = NoRet
  /\ \E ttlSeconds \in TtlSeconds :
       Install(Connect(Cur, c,
         [NoCall EXCEPT !.kind = "sendCommand", !.op = CMD_COLLECTION_ITEM_SET,
                        !.payload = CollectionItemSetPayload(CollectionName, value,
                                                             key, ttlSeconds)],
         FALSE))

\* sendCommand resumes and writes; the server will answer with reply.
GetResume(c) ==
  /\ call[c].pc = "ready"
  /\ \E reply \in GetReplies :
       /\ Install(SendCommandBody(Cur, c, reply))

\* collectionItemGet resumes with the response of sendCommand.
GetReturn(c) ==
  /\ call[c].pc = "resolved"
  /\ call[c].op = CMD_COLLECTION_ITEM_GET
  /\ ret = NoRet
  /\ ret' = CollectionItemGetReturn(c, call[c].frame)
  /\ UNCHANGED << engine, value >>

\* collectionItemSet resumes with the response of sendCommand.
SetReturn(c) ==
  /\ call[c].pc = "resolved"
  /\ call[c].op = CMD_COLLECTION_ITEM_SET
  /\ ret = NoRet
  /\ ret' = CollectionItemSetReturn(c, call[c].frame)
  /\ UNCHANGED << engine, value >>

ApiNext ==
  \/ \E c \in Calls : CallCollectionItemGet(c)
  \/ \E c \in Calls, key \in { NoKey, Key } : CallCollectionItemSet(c, key)
  \/ \E c \in Calls : SetReturn(c)
  \/ \E c \in Calls : GetResume(c)
  \/ \E a \in Attempts : Data(a)
  \/ \E c \in Calls : GetReturn(c)

SpecApi == ApiInit /\ [][ApiNext]_vars

\* ----------------------------------------------- status-string specification
\* getStatusString applied to every value a status byte can take.
ApplyGetStatusString ==
  /\ ret = NoRet
  /\ \E status \in StatusBytes :
       ret' = [NoRet EXCEPT !.fn = "getStatusString", !.arg = status,
                            !.str = GetStatusString(status)]
  /\ UNCHANGED << engine, value >>

SpecStatus == Init /\ [][ApplyGetStatusString]_vars

\* -------------------------------------------- legacy client specification
\* The legacy client from its construction: connect(), a command and
\* close() called by user code, and the events of its sockets.
current == << socket, connectingPromise, isAuthenticatedSession,
              authenticatedUser, responseBuffer, responseWaiter, sock, promise,
              written, inflight, call, ret, value >>

LegacyInstall(L) ==
  /\ legacy' = L
  /\ UNCHANGED << config, current >>

LegacyInit == Init

LegacyUnused == { a \in Attempts : legacy.promise[a].state = "unused" }
LegacyFresh == CHOOSE a \in LegacyUnused : \A b \in LegacyUnused : a <= b

LegacyCallConnect(c) ==
  /\ ~legacy.crashed
  /\ legacy.call[c].kind = "none"
  /\ LegacyLive(legacy) \/ legacy.connectingPromise # Null \/ LegacyUnused # { }
  /\ \E certOk \in BOOLEAN, reply \in AuthReplies :
       LegacyInstall(LegacyConnect(legacy, c,
                                   IF LegacyUnused = { } THEN 1 ELSE LegacyFresh,
                                   certOk, reply))

LegacyCallSendCommand(c) ==
  /\ ~legacy.crashed
  /\ legacy.call[c].kind = "none"
  /\ \E reply \in CmdReplies :
       LegacyInstall(
         LegacySendCommand([legacy EXCEPT !.call[c].kind = "sendCommand",
                                          !.call[c].pc = "reading"],
                           CallExec(c), CMD_COLLECTION_CREATE, reply))

LegacyCallClose ==
  /\ ~legacy.crashed
  /\ LegacyInstall(LegacyClose(legacy))

LegacySecureConnect(a) ==
  /\ ~legacy.crashed
  /\ legacy.sock[a].state = "connecting"
  /\ \E authorized \in BOOLEAN, reply \in AuthReplies :
       LegacyInstall(LegacySecureConnectBody(legacy, a, authorized, reply))

LegacyChunkSizes(a) ==
  LET len == Len(legacy.sock[a].inflight)
  IN { IF len < ChunkLen THEN len ELSE ChunkLen, len }

LegacyData(a) ==
  /\ ~legacy.crashed
  /\ legacy.sock[a].state = "open"
  /\ legacy.sock[a].flowing
  /\ legacy.sock[a].inflight # << >>
  /\ \E k \in LegacyChunkSizes(a) : LegacyInstall(LegacyDataBody(legacy, a, k))

LegacySocketError(a) ==
  /\ ~legacy.crashed
  /\ legacy.sock[a].state \in { "connecting", "open" }
  /\ LegacyInstall(LegacySocketErrorBody(legacy, a))

LegacySocketClose(a) ==
  /\ ~legacy.crashed
  /\ legacy.sock[a].closePending \/ legacy.sock[a].state = "open"
  /\ LegacyInstall(LegacySocketCloseBody(legacy, a))

LegacyNext ==
  \/ \E c \in Calls : LegacyCallConnect(c)
  \/ \E c \in Calls : LegacyCallSendCommand(c)
  \/ LegacyCallClose
  \/ \E a \in Attempts : LegacySecureConnect(a)
  \/ \E a \in Attempts : LegacyData(a)
  \/ \E a \in Attempts : LegacySocketError(a)
  \/ \E a \in Attempts : LegacySocketClose(a)

SpecLegacy == LegacyInit /\ [][LegacyNext]_vars

\* ------------------------------------------- legacy reader specification
\* The receive path of the legacy sendCommand alone: an authenticated
\* session on socket 1, a command of call 1 written and its first readNBytes
\* listening, the encoded answer of the server on its way; the transport
\* hands the bytes over in chunks of any size.
LegacySession ==
  [NoLegacy EXCEPT !.socket = 1, !.connectingPromise = 1,
                   !.isAuthenticatedSession = TRUE,
                   !.authenticatedUser = Username,
                   !.sock[1].state = "open",
                   !.promise[1].state = "resolved",
                   !.call[1].kind = "sendCommand",
                   !.call[1].pc = "reading"]

LegacyReaderInit ==
  /\ username = Username
  /\ serverCertPath = TRUE
  /\ rejectUnauthorized = TRUE
  /\ socket = Null
  /\ connectingPromise = Null
  /\ isAuthenticatedSession = FALSE
  /\ authenticatedUser = NoUser
  /\ responseBuffer = << >>
  /\ responseWaiter = NoWaiter
  /\ sock = [a \in Attempts |-> NoSock]
  /\ promise = [a \in Attempts |-> NoPromise]
  /\ written = [a \in Attempts |-> << >>]
  /\ inflight = [a \in Attempts |-> << >>]
  /\ call = [c \in Calls |-> NoCall]
  /\ ret = NoRet
  /\ value = NoDocument
  /\ \E f \in CodecFrames :
       legacy = LegacySendCommand(LegacySession, CallExec(1),
                                  CMD_COLLECTION_CREATE, f)

LegacyDeliver(a) ==
  /\ legacy.sock[a].state = "open"
  /\ legacy.sock[a].flowing
  /\ \E k \in 1..Len(legacy.sock[a].inflight) :
       LegacyInstall(LegacyDataBody(legacy, a, k))

SpecLegacyReader == LegacyReaderInit /\ [][\E a \in Attempts : LegacyDeliver(a)]_vars

\* ================================================================ claims
OpenSockets == { a \in Attempts : sock[a].state \in { "connecting", "open" } }

\* The entry call c wrote on the socket it used, and the frame the server
\* answers it with.
EntryOf(c) ==
  LET w == written[call[c].wrote]
  IN w[CHOOSE i \in 1..Len(w) : w[i].by = CmdWaiter(c)]
Answer(c) == EntryOf(c).reply

\* The command written last on socket s in the step.
LastWritten(s) == written'[s][Len(written'[s])]

\* C1: a command other than the authentication command is written only
\* while isAuthenticatedSession is true; a sendCommand with such an opcode
\* whose continuation runs in an unauthenticated session writes nothing and
\* is rejected, with the not-authenticated error at the gate of line 267
\* (a call that finds no socket at all is rejected one line earlier).
C1_AuthGate ==
  [][ /\ \A s \in Attempts :
           (written'[s] # written[s] /\ LastWritten(s).bytes[1] # CMD_AUTHENTICATE)
             => isAuthenticatedSession /\ isAuthenticatedSession'
      /\ \A c \in Calls :
           (/\ call[c].pc = "ready"
            /\ call'[c].pc # "ready"
            /\ call[c].op # CMD_AUTHENTICATE
            /\ ~isAuthenticatedSession)
             => /\ written' = written
                /\ call'[c].pc = "rejected"
                /\ (socket # Null => call'[c].err = "NotAuthenticated")
    ]_vars

C1_Witness ==
  \E c \in Calls :
    /\ call[c].pc = "rejected"
    /\ call[c].err = "NotAuthenticated"
    /\ socket # Null
    /\ \A s \in Attempts : \A i \in 1..Len(written[s]) :
         written[s][i].bytes[1] = CMD_AUTHENTICATE

\* C2: a caller that has written its command and waits for the response is
\* rejected when the connection resets, so no caller stays waiting on a
\* socket that is gone.
C2_WaiterRejectedOnReset ==
  \A c \in Calls : call[c].pc = "waiting" => SockOpen(Cur, call[c].wrote)

\* C3: a connect() issued while an earlier connect() is in flight opens no
\* socket and joins the attempt of the earlier call: it waits for the same
\* promise, so both calls end with the outcome of that attempt.
C3_SingleHandshake ==
  [][ \A c1, c2 \in Calls :
        (/\ call[c1].pc = "awaitConnect"
         /\ call[c2].kind = "none"
         /\ call'[c2].kind # "none")
          => /\ sock' = sock
             /\ call'[c2].pc = "awaitConnect"
             /\ call'[c2].awaits = call[c1].awaits
    ]_vars

\* C4: at most one socket made by the client is open at any time.
C4_OneSocket == Cardinality(OpenSockets) <= 1

\* ---- the frames sent in the decoder specification
NSent == Len(written[1])
Sent(i) == written[1][i].reply
Enc(i) == EncodeResponse(Sent(i))
RECURSIVE EncLenUpTo(_)
EncLenUpTo(i) == IF i = 0 THEN 0 ELSE EncLenUpTo(i - 1) + Len(Enc(i))
Received == EncLenUpTo(NSent) - Len(inflight[1])

\* C5: however the bytes of a frame are split into chunks, the waiting
\* caller gets nothing before the last byte of its frame has arrived, gets
\* the frame with the chunk that brings this byte, and the frame is the one
\* decoded from the whole encoded frame given at once; no caller gets a
\* frame that was not sent.
C5_ChunkInvariance ==
  /\ \A c \in Calls :
       /\ call[c].pc = "resolved" =>
            /\ c <= NSent
            /\ Received >= EncLenUpTo(c)
            /\ call[c].frame = TryProcess(Enc(c), CmdWaiter(c)).frame
            /\ TryProcess(Enc(c), CmdWaiter(c)).delivered
       /\ (call[c].pc = "waiting" /\ c <= NSent) => Received < EncLenUpTo(c)
       /\ call[c].pc = "waiting" => responseWaiter = CmdWaiter(c)
  /\ (NSent = 1 /\ inflight[1] = << >>) => responseBuffer = << >>

C5_Witness ==
  /\ NSent = 1
  /\ call[1].pc = "waiting"
  /\ Len(responseBuffer) = Len(Enc(1)) - 1
  /\ Len(inflight[1]) = 1

\* C6: when one chunk brings two complete frames, the waiting caller gets
\* the first; the second stays in the buffer and is given to the next
\* caller in the step in which it calls waitForResponse, with no data event,
\* and then nothing is left of the two frames in the buffer.
C6_TwoFramesOneChunk ==
  [][ /\ (/\ NSent >= 2
          /\ responseBuffer = << >>
          /\ responseWaiter = CmdWaiter(1)
          /\ Received = 0
          /\ Received' >= EncLenUpTo(2))
           => /\ call'[1].pc = "resolved"
              /\ call'[1].frame = Sent(1)
              /\ call'[2].pc = "idle"
              /\ Len(responseBuffer') >= Len(Enc(2))
              /\ SubSeq(responseBuffer', 1, Len(Enc(2))) = Enc(2)
      /\ (/\ NSent >= 2
          /\ call[1].pc = "resolved"
          /\ call[2].pc = "idle"
          /\ call'[2].pc # "idle"
          /\ Len(responseBuffer) >= Len(Enc(2)))
           => /\ inflight' = inflight
              /\ call'[2].pc = "resolved"
              /\ call'[2].frame = Sent(2)
              /\ responseBuffer' = SubSeqFrom(responseBuffer, Len(Enc(2)))
              /\ (NSent = 2 /\ inflight[1] = << >>) => responseBuffer' = << >>
    ]_vars

C6_Witness ==
  /\ NSent = 2
  /\ Sent(1) # Sent(2)
  /\ call[1].pc = "resolved" /\ call[1].frame = Sent(1)
  /\ call[2].pc = "resolved" /\ call[2].frame = Sent(2)
  /\ responseBuffer = << >>
  /\ inflight[1] = << >>

\* C7: the frame decoded from status | u32le(byte length of message) |
\* message | u32le(length of data) | data is {status, message, data}:
\* status is byte 0, message the bytes [5, 5+msgLen), data the bytes
\* [9+msgLen, 9+msgLen+dataLen).
C7_RoundTrip ==
  \A c \in Calls :
    call[c].pc = "resolved" =>
      /\ c <= NSent
      /\ call[c].frame = Sent(c)
      /\ LET e == Enc(c)
             msgLen == Len(Utf8Encode(Sent(c).message))
             dataLen == Len(Sent(c).data)
         IN /\ Len(e) = 9 + msgLen + dataLen
            /\ call[c].frame.status = e[1]
            /\ Utf8Encode(call[c].frame.message) = SubSeq(e, 6, 5 + msgLen)
            /\ call[c].frame.data = SubSeq(e, 10 + msgLen, 9 + msgLen + dataLen)

C7_Witness ==
  /\ call[1].pc = "resolved"
  /\ call[1].frame = [status |-> 255, message |-> << >>, data |-> << 9, 0 >>]

\* ---- one request at a time
\* Call c is the only request outstanding and exactly its answer is on the
\* way: c is the registered waiter on the current socket, and the bytes
\* received so far plus those in flight are the server's answer to c.
Quiet(c) ==
  /\ call[c].kind = "sendCommand"
  /\ call[c].pc = "waiting"
  /\ responseWaiter = CmdWaiter(c)
  /\ socket # Null
  /\ socket = call[c].wrote
  /\ sock[socket].state = "open"
  /\ sock[socket].listener
  /\ responseBuffer \o inflight[socket] = EncodeResponse(Answer(c))
  /\ \A a \in Attempts \ { socket } : inflight[a] = << >>

\* A step in which bytes in flight on socket s arrive: nothing is written
\* and no socket changes.
Arrives(s) ==
  /\ Len(inflight'[s]) < Len(inflight[s])
  /\ written' = written
  /\ sock' = sock

\* C8: in an authenticated session with no request outstanding,
\* sendCommand(opcode, payload) writes [opcode] ++ payload once; while the
\* chunks of the server's answer arrive the caller keeps waiting, and with
\* the chunk that completes the frame it resolves with exactly the status,
\* message and data the server sent.
C8_RoundTrip ==
  [][ \A c \in Calls :
        /\ (/\ call[c].pc = "ready"
            /\ call'[c].pc # "ready"
            /\ isAuthenticatedSession
            /\ socket # Null
            /\ responseWaiter = NoWaiter)
             => /\ written'[socket] =
                     Append(written[socket],
                            [bytes |-> << call[c].op >> \o call[c].payload,
                             by |-> CmdWaiter(c), reply |-> LastWritten(socket).reply])
                /\ \A a \in Attempts \ { socket } : written'[a] = written[a]
                /\ ((/\ responseBuffer = << >>
                     /\ sock[socket].state = "open"
                     /\ sock[socket].listener
                     /\ \A a \in Attempts : inflight[a] = << >>) => Quiet(c)')
        /\ (Quiet(c) /\ Arrives(socket))
             => IF inflight'[socket] = << >>
                  THEN /\ call'[c].pc = "resolved"
                       /\ call'[c].frame = Answer(c)
                       /\ responseBuffer' = << >>
                       /\ responseWaiter' = NoWaiter
                  ELSE Quiet(c)'
    ]_vars

C8_Witness ==
  \E c \in Calls :
    /\ call[c].kind = "sendCommand"
    /\ call[c].pc = "resolved"
    /\ call[c].frame = FrameOK
    /\ Answer(c) = FrameOK
    /\ EntryOf(c).bytes = << CMD_COLLECTION_CREATE >> \o WriteString(CollectionName)
    /\ Len(written[call[c].wrote]) = 2

\* C9: sendCommand calls that overlap are served in order: a caller gets
\* the answer to its own command, and a caller waiting on the current
\* connection keeps its continuation registered.
C9_Fifo ==
  \A c \in Calls :
    call[c].kind = "sendCommand" =>
      /\ call[c].pc = "resolved" => call[c].frame = Answer(c)
      /\ (call[c].pc = "waiting" /\ socket = call[c].wrote)
           => responseWaiter = CmdWaiter(c)

\* C10: with credentials configured, the session is authenticated as the
\* configured user at the moment a connect() call resolves.
C10_ResolvedAuthenticated ==
  [][ \A c \in Calls :
        (/\ username # NoUser
         /\ call[c].pc # "resolved"
         /\ call'[c].kind = "connect"
         /\ call'[c].pc = "resolved")
          => isAuthenticatedSession' /\ authenticatedUser' = username
    ]_vars

\* ---- the authentication handshake
\* The server's answer to the authentication command of attempt a is what
\* arrives next: a is the connection of the client, its
\* performAuthentication waits, and the bytes received so far plus those in
\* flight are that answer.
AuthAnswered(a) ==
  /\ responseWaiter = AuthWaiter(a)
  /\ socket = a
  /\ sock[a].state = "open"
  /\ sock[a].listener
  /\ promise[a].state = "pending"
  /\ Len(written[a]) = 1
  /\ written[a][1].bytes[1] = CMD_AUTHENTICATE
  /\ responseBuffer \o inflight[a] = EncodeResponse(written[a][1].reply)
  /\ \A b \in Attempts \ { a } : inflight[b] = << >>

Disconnected ==
  /\ socket = Null
  /\ connectingPromise = Null
  /\ ~isAuthenticatedSession
  /\ authenticatedUser = NoUser

\* C11: when the answer to the connect-time authentication command has a
\* status other than OK, the step that receives it rejects connect() with
\* the authentication-failed error carrying the status string and the
\* server message; and whenever connect() is rejected with that error the
\* socket of the attempt is destroyed, the callers waiting for the attempt
\* are rejected with it, and the client is disconnected: socket null,
\* isAuthenticatedSession false, authenticatedUser null, connectingPromise
\* null.
C11_AuthFailure ==
  [][ \A a \in Attempts :
        /\ (/\ AuthAnswered(a)
            /\ written[a][1].reply.status # STATUS_OK
            /\ responseWaiter' = NoWaiter)
             => promise'[a] = [state |-> "rejected", err |-> "AuthenticationFailed",
                               detail |-> DetailOf(written[a][1].reply)]
        /\ (/\ promise[a].state = "pending"
            /\ promise'[a].state = "rejected"
            /\ promise'[a].err = "AuthenticationFailed")
             => /\ Disconnected'
                /\ sock'[a].state = "destroyed"
                /\ promise'[a].detail.status # "OK"
                /\ \A c \in Calls :
                     (call[c].pc = "awaitConnect" /\ call[c].awaits = a)
                       => /\ call'[c].pc = "rejected"
                          /\ call'[c].err = "AuthenticationFailed"
                          /\ call'[c].detail = promise'[a].detail
    ]_vars

C11_Witness ==
  \E a \in Attempts, c \in Calls :
    /\ promise[a] = [state |-> "rejected", err |-> "AuthenticationFailed",
                     detail |-> [status |-> "UNAUTHORIZED", message |-> << 110, 111 >>]]
    /\ call[c].kind = "connect"
    /\ call[c].pc = "rejected"
    /\ call[c].err = "AuthenticationFailed"
    /\ call[c].detail = promise[a].detail
    /\ sock[a].state = "destroyed"
    /\ Disconnected

\* C12: the step that handles an error event or a close event of a socket,
\* whatever the state it arrives in, leaves the session reset: socket null,
\* connectingPromise null, isAuthenticatedSession false, authenticatedUser
\* null and an empty receive buffer.
C12_EventResets ==
  [][ (\E a \in Attempts : SocketError(a) \/ SocketClose(a))
        => (Disconnected' /\ responseBuffer' = << >>)
    ]_vars

C12_Witness ==
  \E a \in Attempts, c \in Calls :
    /\ call[c].pc = "rejected"
    /\ call[c].err = "SocketError"
    /\ promise[a].err = "SocketError"
    /\ sock[a].state = "destroyed"
    /\ Len(written[a]) = 1
    /\ Disconnected
    /\ responseBuffer = << >>

\* ---- commands outside an authenticated session
\* Call c is issued in the step: user code calls a command method.
Issued(c) == call[c].kind = "none" /\ call'[c].kind = "sendCommand"

\* The continuation of sendCommand of call c runs in the step.
Resumes(c) == call[c].pc = "ready" /\ call'[c].pc # "ready"

HoldsSocket == socket # Null /\ sock[socket].state # "destroyed"

RECURSIVE AnswerLen(_, _)
AnswerLen(s, n) ==
  IF n = 0 THEN 0 ELSE AnswerLen(s, n - 1) + Len(EncodeResponse(written[s][n].reply))

\* The authentication command was the first command written on socket s and
\* the server's answer to it, with status OK, has arrived completely.
AuthenticatedOn(s) ==
  /\ Len(written[s]) >= 1
  /\ written[s][1].bytes = << CMD_AUTHENTICATE >> \o WriteString(username)
                             \o WriteString(Password)
  /\ written[s][1].reply.status = STATUS_OK
  /\ sock[s].state = "open"
  /\ AnswerLen(s, Len(written[s])) - Len(inflight[s]) >= AnswerLen(s, 1)

\* No connection and no connect in flight.
ConnectionDown ==
  /\ socket = Null
  /\ connectingPromise = Null \/ promise[connectingPromise].state # "pending"

\* C15: with credentials, a sendCommand called while the connection is down
\* starts a new attempt (it opens a new socket and waits for it, or fails
\* reading the CA file of this attempt); and a command of a caller is
\* written on a socket only after the authentication command was written on
\* that socket and answered with OK.
C15_ReconnectAuthFirst ==
  [][ username # NoUser =>
        /\ \A c \in Calls :
             (Issued(c) /\ ConnectionDown)
               => \E a \in Attempts :
                    /\ promise[a].state = "unused"
                    /\ written' = written
                    /\ \/ /\ sock'[a].state = "connecting"
                          /\ call'[c].pc = "awaitConnect"
                          /\ call'[c].awaits = a
                       \/ /\ promise'[a].err = "CertificateRead"
                          /\ call'[c].pc = "rejected"
        /\ \A s \in Attempts :
             (written'[s] # written[s] /\ LastWritten(s).by.kind = "cmd")
               => AuthenticatedOn(s)
    ]_vars

C17_AnonymousConnect ==
  [][ username = NoUser =>
        /\ \A a \in Attempts :
             (sock[a].state = "connecting" /\ sock'[a].state = "open")
               => /\ promise[a].state = "pending"
                  /\ promise'[a] = [state |-> "resolved", err |-> "none",
                                    detail |-> NoDetail]
                  /\ socket' = a
                  /\ connectingPromise' = Null
                  /\ written' = written
                  /\ responseWaiter' = responseWaiter
                  /\ \A c \in Calls :
                       (call[c].pc = "awaitConnect" /\ call[c].awaits = a)
                         => /\ call'[c].err = "none"
                            /\ call'[c].pc = (IF call[c].kind = "connect"
                                                THEN "resolved" ELSE "ready")
        /\ ~isAuthenticatedSession'
        /\ authenticatedUser' = NoUser
        /\ \A s \in Attempts : \A i \in 1..Len(written'[s]) :
             written'[s][i].bytes[1] # CMD_AUTHENTICATE
    ]_vars

C17_Witness ==
  \E c \in Calls :
    /\ username = NoUser
    /\ call[c] = [NoCall EXCEPT !.kind = "connect", !.pc = "resolved"]
    /\ socket = 1
    /\ sock[1].state = "open"
    /\ promise[1].state = "resolved"
    /\ ~isAuthenticatedSession
    /\ \A s \in Attempts : written[s] = << >>

DocumentValue(data) ==
  CASE data = << 123, 125 >> -> JObject
    [] data = << 52, 50 >> -> JNumber(42)
    [] data = << 110, 117, 108, 108 >> -> JNull
    [] OTHER -> JInvalid

GetReturned == ret.fn = "collectionItemGet"
ServerError(f) ==
  /\ ret.threw
  /\ ret.err = "ItemGetFailed"
  /\ ret.detail = [status |-> GetStatusString(f.status), message |-> f.message]
Absent(f) ==
  /\ ~ret.threw
  /\ ~ret.found
  /\ ret.value = JNull
  /\ ret.message = f.message
Present(f) ==
  /\ ~ret.threw
  /\ ret.found
  /\ ret.value = DocumentValue(f.data)
  /\ ret.message = f.message

\* C19: collectionItemGet whose response status is NOT_FOUND returns
\* {found: false, value: null} with the server message and does not throw;
\* status OK returns found: true with the decoded value; every other status
\* throws an error carrying the status string and the server message.
C19_ReadResult ==
  GetReturned =>
    LET f == Answer(ret.of)
    IN /\ f.status = STATUS_NOT_FOUND => Absent(f)
       /\ f.status = STATUS_OK => Present(f)
       /\ f.status \notin { STATUS_OK, STATUS_NOT_FOUND } => ServerError(f)

\* C19 as the code has it: as above, except that status OK returns
\* found: true with the decoded value when the data is a JSON text, and
\* throws the SyntaxError of JSON.parse when it is not.
C19_ReadResultDecodable ==
  GetReturned =>
    LET f == Answer(ret.of)
    IN /\ f.status = STATUS_NOT_FOUND => Absent(f)
       /\ f.status = STATUS_OK /\ DocumentValue(f.data) # JInvalid => Present(f)
       /\ f.status = STATUS_OK /\ DocumentValue(f.data) = JInvalid
            => ret.threw /\ ret.err = "SyntaxError"
       /\ f.status \notin { STATUS_OK, STATUS_NOT_FOUND } => ServerError(f)

C19_Witness ==
  /\ GetReturned
  /\ Answer(ret.of).status = STATUS_NOT_FOUND
  /\ Answer(ret.of).message = << 110, 111 >>
  /\ ret = [NoRet EXCEPT !.fn = "collectionItemGet", !.of = ret.of,
                         !.message = << 110, 111 >>]

\* C20: getStatusString maps 1 to OK, 2 to NOT_FOUND, 3 to ERROR, 4 to
\* BAD_COMMAND, 5 to UNAUTHORIZED and 6 to BAD_REQUEST, and every other
\* status byte (0 and 7..255) to UNKNOWN_STATUS.
C20_StatusStrings ==
  ret.fn = "getStatusString" =>
    /\ ret.arg = 1 => ret.str = "OK"
    /\ ret.arg = 2 => ret.str = "NOT_FOUND"
    /\ ret.arg = 3 => ret.str = "ERROR"
    /\ ret.arg = 4 => ret.str = "BAD_COMMAND"
    /\ ret.arg = 5 => ret.str = "UNAUTHORIZED"
    /\ ret.arg = 6 => ret.str = "BAD_REQUEST"
    /\ ret.arg \in { 0 } \cup (7..255) => ret.str = "UNKNOWN_STATUS"

C20_Witness ==
  /\ ret.fn = "getStatusString"
  /\ ret.arg = 0
  /\ ret.str = "UNKNOWN_STATUS"

\* The item key in the payload of a collectionItemSet command:
\* writeString(collectionName) ++ writeString(itemKey) ++ ...
ItemKeySent(payload) ==
  LET n == ReadUInt32LE(payload, 0)
      m == ReadUInt32LE(payload, 4 + n)
  IN Utf8Decode(Subarray(payload, 8 + n, 8 + n + m))

\* The text form of a UUID: 36 characters, hyphens at 9, 14, 19 and 24,
\* hexadecimal digits elsewhere.
IsUuid(str) ==
  /\ Len(str) = 36
  /\ \A i \in 1..36 :
       IF i \in { 9, 14, 19, 24 } THEN str[i] = 45
       ELSE (str[i] >= 48 /\ str[i] <= 57) \/ (str[i] >= 97 /\ str[i] <= 102)

\* C21: collectionItemSet called without a key generates a UUID on the
\* client, assigns it to the _id property of the value object and sends it
\* as the item key; called with a key it sends that key.
C21_ItemSetKey ==
  [][ \A c \in Calls :
        /\ CallCollectionItemSet(c, NoKey)
             => /\ IsUuid(ItemKeySent(call'[c].payload))
                /\ value'.id = ItemKeySent(call'[c].payload)
        /\ CallCollectionItemSet(c, Key)
             => ItemKeySent(call'[c].payload) = Key
    ]_vars

\* The length fields of the frame at the front of a buffer that holds them.
MsgLenAt(buf) == ReadUInt32LE(buf, 1)
DataLenAt(buf) == ReadUInt32LE(buf, 5 + MsgLenAt(buf))

\* The buffer does not hold a complete frame.
Incomplete(buf) ==
  \/ Len(buf) < 5
  \/ Len(buf) < 5 + MsgLenAt(buf) + 4
  \/ Len(buf) < 9 + MsgLenAt(buf) + DataLenAt(buf)

\* C22: when the receive buffer does not hold a complete frame (fewer than 5
\* bytes, or fewer than 5+msgLen+4 bytes, or fewer than 9+msgLen+dataLen
\* bytes), tryProcessResponse delivers nothing and leaves the receive buffer
\* and the pending-request slot unchanged: after a data event the buffer is
\* the old buffer followed by the chunk and the waiter and the callers are
\* as before; after waitForResponse the buffer is as before and the slot
\* holds the waiter just registered.
C22_IncompleteKept ==
  [][ /\ LET k == Len(inflight[1]) - Len(inflight'[1])
             buf == responseBuffer \o SubSeq(inflight[1], 1, k)
         IN (k >= 1 /\ Incomplete(buf))
              => /\ responseBuffer' = buf
                 /\ responseWaiter' = responseWaiter
                 /\ call' = call
      /\ \A c \in Calls :
           (call[c].kind = "none" /\ call'[c].kind # "none" /\ Incomplete(responseBuffer))
             => /\ responseBuffer' = responseBuffer
                /\ responseWaiter' = CmdWaiter(c)
                /\ call'[c].pc = "waiting"
    ]_vars

\* A waiter is registered and the buffer holds the header and the message
\* of a frame but not all of its data.
C22_Witness ==
  /\ responseWaiter # NoWaiter
  /\ Len(responseBuffer) >= 5
  /\ Len(responseBuffer) >= 9 + MsgLenAt(responseBuffer)
  /\ Len(responseBuffer) < 9 + MsgLenAt(responseBuffer) + DataLenAt(responseBuffer)

\* The bytes of the first i frames the server sent.
RECURSIVE EncUpTo(_)
EncUpTo(i) == IF i = 0 THEN << >> ELSE EncUpTo(i - 1) \o Enc(i)

\* C23: delivering a frame removes exactly 9+msgLen+dataLen bytes from the
\* front of the receive buffer: the bytes removed are those of the frame
\* delivered, the bytes that followed it are kept unchanged and in order,
\* and what the buffer then holds, followed by the bytes still in flight,
\* is exactly the frames sent after the delivered one.
C23_TrimExact ==
  [][ \A c \in Calls :
        (call[c].pc # "resolved" /\ call'[c].pc = "resolved")
          => LET chunk == SubSeq(inflight[1], 1, Len(inflight[1]) - Len(inflight'[1]))
                 buf == responseBuffer \o chunk
                 total == 9 + MsgLenAt(buf) + DataLenAt(buf)
             IN /\ Len(buf) >= total
                /\ SubSeq(buf, 1, total) = Enc(c)
                /\ responseBuffer' = SubSeqFrom(buf, total)
                /\ responseBuffer' \o inflight'[1]
                     = SubSeqFrom(EncUpTo(NSent), EncLenUpTo(c))
    ]_vars

\* The first frame was delivered out of a chunk that also brought the
\* beginning of the second, which is kept.
C23_Witness ==
  /\ NSent = 2
  /\ call[1].pc = "resolved"
  /\ call[2].pc = "idle"
  /\ responseBuffer # << >>
  /\ inflight[1] # << >>
  /\ responseBuffer \o inflight[1] = Enc(2)

\* A frame is handed to the continuation of command call c, or to the
\* authentication of attempt a, in the step.
FrameToCall(c) ==
  /\ call[c].kind = "sendCommand"
  /\ call[c].pc # "resolved"
  /\ call'[c].pc = "resolved"
FrameToAuth(a) ==
  /\ promise[a].state = "pending"
  /\ \/ ~isAuthenticatedSession /\ isAuthenticatedSession' /\ promise'[a].state = "resolved"
     \/ promise'[a].state = "rejected" /\ promise'[a].err = "AuthenticationFailed"

\* C24: the pending-request slot holds at most one continuation at a time
\* (nothing, the continuation of one authentication or that of one command
\* call), and the step that extracts a complete frame hands it to the
\* continuation the slot held and leaves the slot empty.
C24_SingleSlot ==
  /\ [](responseWaiter \in { NoWaiter } \cup { AuthWaiter(a) : a \in Attempts }
                             \cup { CmdWaiter(c) : c \in Calls })
  /\ [][ /\ \A c \in Calls :
              FrameToCall(c)
                => /\ responseWaiter' = NoWaiter
                   /\ responseWaiter \in { NoWaiter, CmdWaiter(c) }
                   /\ call[c].pc \in { "waiting", "ready" }
         /\ \A a \in Attempts :
              FrameToAuth(a)
                => /\ responseWaiter' = NoWaiter
                   /\ responseWaiter \in { NoWaiter, AuthWaiter(a) }
       ]_vars

C24_Witness ==
  \E c \in Calls :
    /\ call[c].kind = "sendCommand"
    /\ call[c].pc = "resolved"
    /\ call[c].frame = FrameData
    /\ responseWaiter = NoWaiter
    /\ responseBuffer = << >>
    /\ \A d \in Calls \ { c } : call[d].pc # "waiting"

\* The client is closed: it holds no socket, is not authenticated, and no
\* socket it made is connecting or open.
Closed ==
  /\ socket = Null
  /\ ~isAuthenticatedSession
  /\ OpenSockets = {}

\* User code calls connect() or a command method in the step.
NewCall == \E c \in Calls : call[c].kind = "none" /\ call'[c].kind # "none"

\* C25: after close(), including a close() during the TLS handshake of a
\* connect(), the client is closed, and it stays closed in every step in
\* which connect() or sendCommand() is not called: it holds no socket, is
\* not authenticated, and no socket of an interrupted attempt is open.
C25_StaysClosed ==
  [][ /\ CallClose => Closed'
      /\ (Closed /\ ~NewCall) => Closed'
    ]_vars

\* The connect attempt a fails in the step before its connection is
\* established: the CA file cannot be read, or the socket emits an error.
FailsEstablishing(a) ==
  /\ promise[a].state # "rejected"
  /\ promise'[a].state = "rejected"
  /\ promise'[a].err \in { "CertificateRead", "SocketError" }

\* C26: after a connect() attempt fails before or during connection
\* establishment (CA certificate file unreadable, TCP/TLS error) no partial
\* state is retained: the socket handle and the in-flight connect promise
\* are both null, so a later connect() makes a fresh attempt.
C26_NoPartialState ==
  [][ \A a \in Attempts :
        FailsEstablishing(a)
          => /\ socket' = Null
             /\ connectingPromise' = Null
    ]_vars

\* The client has discarded socket a: cleanup() or close() destroyed it, or
\* a later connect() made another socket.
Discarded(a) ==
  \/ sock[a].state = "destroyed"
  \/ \E b \in Attempts : b > a /\ sock[b].state # "none"

\* The client has a connection, established or in progress, that is not a.
HasNewer(a) ==
  \/ socket \notin { Null, a }
  \/ connectingPromise \notin { Null, a }

\* C27: an error or close event emitted by a socket the client has already
\* discarded does not affect the newer connection: no other socket is
\* destroyed, and the socket handle, the in-flight connect promise, the
\* authentication flags and the receive buffer stay as they are.
C27_StaleEvents ==
  [][ \A a \in Attempts :
        ((SocketError(a) \/ SocketClose(a)) /\ Discarded(a) /\ HasNewer(a))
          => /\ \A b \in Attempts \ { a } : sock'[b] = sock[b]
             /\ socket' = socket
             /\ connectingPromise' = connectingPromise
             /\ isAuthenticatedSession' = isAuthenticatedSession
             /\ authenticatedUser' = authenticatedUser
             /\ responseBuffer' = responseBuffer
    ]_vars

\* C28: the frame that resolves a sendCommand call or an authentication is
\* decoded from bytes received on the socket the command was written to:
\* when the data event that delivers the frame is an event of socket a, the
\* command call that gets the frame wrote on a, and the authentication that
\* gets it is the one sent on a.
C28_OwnSocketBytes ==
  [][ \A a \in Attempts :
        Data(a)
          => /\ \A c \in Calls : FrameToCall(c) => call[c].wrote = a
             /\ \A p \in Attempts : FrameToAuth(p) => p = a
    ]_vars

\* The socket of attempt p can emit no further event: it was made, it is
\* destroyed and its close event has been emitted.
Silent(p) ==
  /\ sock[p].state = "destroyed"
  /\ ~sock[p].closePending

\* C29: every connect() call eventually resolves or rejects, provided the
\* socket eventually completes the handshake and delivers the authentication
\* response, or emits an error or a close event.  The resolve and reject of
\* an attempt's promise are held by the callbacks of its socket only, so the
\* claim is stated in the form a finite run refutes: no call is still
\* waiting for the promise of an attempt whose socket has emitted its close
\* event and can emit nothing more.
C29_ConnectSettles ==
  \A c \in Calls :
    call[c].pc = "awaitConnect" => ~Silent(call[c].awaits)

\* C30: in every reachable state isAuthenticatedSession is true exactly when
\* authenticatedUser is non-null, and a non-null authenticatedUser is the
\* username passed to the constructor.
C30_AuthFieldsAgree ==
  /\ isAuthenticatedSession <=> authenticatedUser # NoUser
  /\ authenticatedUser # NoUser => authenticatedUser = username

C30_Witness ==
  /\ isAuthenticatedSession
  /\ authenticatedUser = Username
  /\ username = Username
  /\ socket # Null

\* C31: in every reachable state isAuthenticatedSession true implies that
\* the client holds a socket handle: the session is never marked
\* authenticated while the client is disconnected.
C31_AuthenticatedHoldsSocket ==
  isAuthenticatedSession => socket # Null


\* C32: in the legacy client a response frame is decoded to the same
\* { status, message, data } however the transport splits its bytes into
\* data chunks, the whole frame in one chunk included: once every byte of
\* the answer has been received, sendCommand has returned the frame the
\* server sent, no received byte being lost between two readNBytes calls.
C32_ChunkInvariant ==
  LET s == legacy.sock[1]
  IN (s.written # << >> /\ s.inflight = << >>)
       => /\ legacy.call[1].pc = "resolved"
          /\ legacy.call[1].frame = s.written[1].reply

\* The authentication commands written on socket a so far.
AuthWritten(a) ==
  Len(SelectSeq(legacy.sock[a].written, LAMBDA w : w.op = CMD_AUTHENTICATE))

\* connect() was called again while the connection the first connect()
\* started on socket a was still in progress (its promise pending), and
\* nothing else has happened to that connection since.
SecondConnectDuring(a) ==
  /\ username # NoUser
  /\ legacy.socket = a
  /\ legacy.connectingPromise = a
  /\ legacy.sock[a].state \in { "connecting", "open" }
  /\ ~legacy.sock[a].ended
  /\ \A c \in Calls : legacy.call[c].kind \in { "none", "connect" }
  /\ \E c, d \in Calls :
       /\ c # d
       /\ legacy.call[c].kind = "connect" /\ legacy.call[c].awaits = a
       /\ legacy.call[d].kind = "connect" /\ legacy.call[d].awaits # a

\* C33: in the legacy client with credentials, calling connect() again
\* while the first connect() is still in progress causes exactly one
\* authentication command to be written on the socket: never a second one,
\* and one once the handshake has completed.
C33_OneAuthentication ==
  \A a \in Attempts :
    SecondConnectDuring(a)
      => /\ AuthWritten(a) <= 1
         /\ (legacy.sock[a].state = "open" => AuthWritten(a) = 1)
====
